---------------------------- MODULE Spec2Model ----------------------------
(***************************************************************************)
(* A model of the layout engine of drawio-mcp                              *)
(* (src/src/drawio_mcp/layout_engine.py, with snap_to_grid and CellBounds  *)
(* of models.py and get_all_vertex_bounds of layout.py).                   *)
(*                                                                         *)
(* Numbers.  The engine computes with Python floats.  Every value the      *)
(* model stores in a variable is an integer; a value that can be           *)
(* fractional inside a function (a centre, half a margin, half an          *)
(* overlap) is carried as an integer numerator over a denominator that the *)
(* operator's comment names.                                               *)
(*                                                                         *)
(* Iteration order of a Python set of strings depends on the string hash   *)
(* seed of the process; the order is one nondeterministic permutation,     *)
(* chosen once per run (variable all_labels).                              *)
(***************************************************************************)
EXTENDS Integers, Sequences, FiniteSets, TLC

VARIABLES
    entry,          \* the entry point that is running
    pc,             \* position inside the entry point
    edges,          \* layout_sugiyama: the edge list; relayout_diagram: edges_data
    all_labels,     \* the node set, as the sequence in which the set iterates
    color,          \* _find_back_edges: color
    stack,          \* _find_back_edges: stack of <<node, idx>>
    start_i,        \* _find_back_edges: position of "for start in all_nodes"
    back_edges,     \* _find_back_edges: back_edges
    effective_adj,  \* effective adjacency (label -> sequence of labels)
    effective_rev,  \* effective reverse adjacency
    ranks,          \* _assign_ranks_longest_path: ranks (NoRank = key absent)
    queue,          \* _assign_ranks_longest_path: queue
    cfg,            \* the parameters of the call (LayoutEngineConfig, margin, ...)
    cell_ids,       \* diagram.cells: the vertex ids in cell order
    vertices,       \* diagram.cells: geometry of each vertex [x, y, width, height]
    connectors,     \* diagram.cells: the edge cells [source, target, points]
    grid_size,      \* diagram.grid_size
    written,        \* every coordinate the engine has written so far
    local,          \* the local variables of the running function
    previous        \* what the previous call on the same input returned (<<>>: none)

graph_vars == <<edges, all_labels, color, stack, start_i, back_edges,
                effective_adj, effective_rev, ranks, queue>>

diagram_vars == <<cell_ids, vertices, connectors, grid_size, written>>

call_vars == <<entry, previous>>

vars == <<call_vars, pc, graph_vars, cfg, diagram_vars, local>>

\* ------------------------------------------------------------------ bounds
\* Longest edge list drawn over BaseLabels for the ranking specification.
MaxEdges == 3
\* Ranks are capped here: no acyclic graph over the model's labels has a
\* path this long, so only a run that keeps relaxing round a cycle gets here.
RankCap == 5
\* Consecutive calls of optimize_edge_paths on one diagram.
MaxCalls == 2
\* Longest edge list drawn over LayoutPairs for the layout specification.
MaxLayoutEdges == 2

\* ----------------------------------------------------------------- helpers
Range(s) == {s[i] : i \in DOMAIN s}

Perms(S) == {p \in [1..Cardinality(S) -> S] : Range(p) = S}

Max2(a, b) == IF a >= b THEN a ELSE b
Min2(a, b) == IF a <= b THEN a ELSE b
Abs(a) == IF a < 0 THEN -a ELSE a

RECURSIVE SeqMax(_)
SeqMax(s) == IF Len(s) = 1 THEN s[1] ELSE Max2(s[1], SeqMax(Tail(s)))

RECURSIVE SeqSum(_)
SeqSum(s) == IF s = <<>> THEN 0 ELSE s[1] + SeqSum(Tail(s))

SetMax(S) == CHOOSE m \in S : \A x \in S : x <= m
SetMin(S) == CHOOSE m \in S : \A x \in S : m <= x

\* --------------------------------------------------------------- the input
BaseLabels == {"A", "B", "C"}
Labels == BaseLabels \cup {"D"}

Pairs(L) == {<<s, t>> : s \in L, t \in L}

EdgeLists(L, n) == UNION {[1..k -> Pairs(L)] : k \in 1..n}

\* Scenario B of the specification (test_diamond) and scenario A (test_fan_out).
Diamond == << <<"A", "B">>, <<"A", "C">>, <<"B", "D">>, <<"C", "D">> >>
FanOut == << <<"A", "B">>, <<"A", "C">>, <<"A", "D">> >>

LabelsOf(es) == {es[i][1] : i \in DOMAIN es} \cup {es[i][2] : i \in DOMAIN es}

\* adj[u] of layout_sugiyama / relayout_diagram: the targets of u's edges, in
\* input order.
adj(es, u) ==
    LET mine == SelectSeq(es, LAMBDA e : e[1] = u)
    IN  [i \in DOMAIN mine |-> mine[i][2]]

\* The keys of the dict adj in insertion order: sources by first appearance.
RECURSIVE adj_keys(_)
adj_keys(es) ==
    IF es = <<>> THEN <<>>
    ELSE LET rest == adj_keys(SubSeq(es, 1, Len(es) - 1))
             s == es[Len(es)][1]
         IN  IF s \in Range(rest) THEN rest ELSE Append(rest, s)

\* "for src in adj: for tgt in adj[src]": the pairs in the order of that loop.
RECURSIVE adj_pairs_from(_, _)
adj_pairs_from(es, keys) ==
    IF keys = <<>> THEN <<>>
    ELSE LET u == Head(keys)
             ts == adj(es, u)
         IN  [i \in DOMAIN ts |-> <<u, ts[i]>>] \o adj_pairs_from(es, Tail(keys))

adj_pairs(es) == adj_pairs_from(es, adj_keys(es))

\* ------------------------------------------------------- _find_back_edges
WHITE == 0
GRAY == 1
BLACK == 2

\* "for start in all_nodes:" with an empty stack: skip a coloured node, or
\* colour the start GRAY and push its frame.
DfsStart ==
    /\ pc = "dfs"
    /\ stack = <<>>
    /\ start_i <= Len(all_labels)
    /\ LET start == all_labels[start_i]
       IN  IF color[start] # WHITE
           THEN UNCHANGED <<color, stack>>
           ELSE /\ color' = [color EXCEPT ![start] = GRAY]
                /\ stack' = << <<start, 0>> >>
    /\ start_i' = start_i + 1
    /\ UNCHANGED <<call_vars, pc, edges, all_labels, back_edges, effective_adj,
                   effective_rev, ranks, queue, cfg, diagram_vars, local>>

\* One pass of "while stack:".
DfsStep ==
    /\ pc = "dfs"
    /\ stack # <<>>
    /\ LET top == stack[Len(stack)]
           u == top[1]
           idx == top[2]
           neighbors == adj(edges, u)
           below == SubSeq(stack, 1, Len(stack) - 1)
       IN  IF idx < Len(neighbors)
           THEN LET v == neighbors[idx + 1]
                    bumped == Append(below, <<u, idx + 1>>)
                IN  IF v \notin DOMAIN color
                    THEN /\ stack' = bumped
                         /\ UNCHANGED <<color, back_edges>>
                    ELSE IF color[v] = GRAY
                    THEN /\ back_edges' = back_edges \cup {<<u, v>>}
                         /\ stack' = bumped
                         /\ UNCHANGED color
                    ELSE IF color[v] = WHITE
                    THEN /\ color' = [color EXCEPT ![v] = GRAY]
                         /\ stack' = Append(bumped, <<v, 0>>)
                         /\ UNCHANGED back_edges
                    ELSE /\ stack' = bumped
                         /\ UNCHANGED <<color, back_edges>>
           ELSE /\ color' = [color EXCEPT ![u] = BLACK]
                /\ stack' = below
                /\ UNCHANGED back_edges
    /\ UNCHANGED <<call_vars, pc, edges, all_labels, start_i, effective_adj,
                   effective_rev, ranks, queue, cfg, diagram_vars, local>>

\* ------------------------------------- Step 1: reverse the back-edges found
\* The effective edge of an input pair: reversed when the pair is a back-edge.
effective_edge(p, be) == IF p \in be THEN <<p[2], p[1]>> ELSE p

effective_pairs(es, be) ==
    LET ps == adj_pairs(es)
    IN  [i \in DOMAIN ps |-> effective_edge(ps[i], be)]

effective_adj_of(es, be, L) ==
    [n \in L |->
        LET mine == SelectSeq(effective_pairs(es, be), LAMBDA p : p[1] = n)
        IN  [i \in DOMAIN mine |-> mine[i][2]]]

effective_rev_of(es, be, L) ==
    [n \in L |->
        LET mine == SelectSeq(effective_pairs(es, be), LAMBDA p : p[2] = n)
        IN  [i \in DOMAIN mine |-> mine[i][1]]]

\* _find_back_edges returns; the caller builds effective_adj / effective_rev.
CycleRemoval ==
    /\ pc = "dfs"
    /\ stack = <<>>
    /\ start_i > Len(all_labels)
    /\ effective_adj' = effective_adj_of(edges, back_edges, Range(all_labels))
    /\ effective_rev' = effective_rev_of(edges, back_edges, Range(all_labels))
    /\ pc' = "sources"
    /\ UNCHANGED <<call_vars, edges, all_labels, color, stack, start_i, back_edges,
                   ranks, queue, cfg, diagram_vars, local>>

\* --------------------------------------------- _assign_ranks_longest_path
NoRank == -1

\* sources = [n for n in all_nodes if not rev_adj.get(n)], or an arbitrary
\* node (the first the set yields) when there is none.
sources_of(order, rev) ==
    LET srcs == SelectSeq(order, LAMBDA n : rev[n] = <<>>)
    IN  IF srcs = <<>> THEN <<order[1]>> ELSE srcs

RankSources ==
    /\ pc = "sources"
    /\ LET sources == sources_of(all_labels, effective_rev)
       IN  /\ queue' = sources
           /\ ranks' = [n \in Range(all_labels) |->
                           IF n \in Range(sources) THEN 0 ELSE NoRank]
    /\ pc' = "bfs"
    /\ UNCHANGED <<call_vars, edges, all_labels, color, stack, start_i, back_edges,
                   effective_adj, effective_rev, cfg, diagram_vars, local>>

\* "for child in adj.get(node, [])": new_rank is read from ranks[node] on
\* every pass, so a node that is its own child sees the rank it just wrote.
RECURSIVE relax_children(_, _, _, _)
relax_children(node, children, rk, q) ==
    IF children = <<>> THEN [ranks |-> rk, queue |-> q]
    ELSE LET child == Head(children)
             new_rank == rk[node] + 1
         IN  IF rk[child] = NoRank \/ rk[child] < new_rank
             THEN relax_children(node, Tail(children),
                                 [rk EXCEPT ![child] = new_rank], Append(q, child))
             ELSE relax_children(node, Tail(children), rk, q)

\* One pass of "while queue:".
RankStep ==
    /\ pc = "bfs"
    /\ queue # <<>>
    /\ LET node == Head(queue)
           res == relax_children(node, effective_adj[node], ranks, Tail(queue))
       IN  /\ \A n \in DOMAIN res.ranks : res.ranks[n] <= RankCap
           /\ ranks' = res.ranks
           /\ queue' = res.queue
    /\ UNCHANGED <<call_vars, pc, edges, all_labels, color, stack, start_i,
                   back_edges, effective_adj, effective_rev, cfg, diagram_vars, local>>

\* The queue is empty: unranked nodes get rank 0 and the function returns.
RankFinish ==
    /\ pc = "bfs"
    /\ queue = <<>>
    /\ ranks' = [n \in DOMAIN ranks |-> IF ranks[n] = NoRank THEN 0 ELSE ranks[n]]
    /\ pc' = "ranked"
    /\ UNCHANGED <<call_vars, edges, all_labels, color, stack, start_i, back_edges,
                   effective_adj, effective_rev, queue, cfg, diagram_vars, local>>

\* ------------------------------------------------ the ranking specification
\* layout_sugiyama: the nodes are the labels of the edge list.
\* relayout_diagram: the nodes are the diagram's top-level vertices (here
\* BaseLabels and every endpoint), so a vertex may have no edge at all.
nodes_of(e, es) ==
    IF e = "layout_sugiyama" THEN LabelsOf(es) ELSE BaseLabels \cup LabelsOf(es)

GraphStart(es, order) ==
    /\ edges = es
    /\ all_labels = order
    /\ color = [n \in Range(all_labels) |-> WHITE]
    /\ stack = <<>>
    /\ start_i = 1
    /\ back_edges = {}
    /\ effective_adj = [n \in Range(all_labels) |-> <<>>]
    /\ effective_rev = [n \in Range(all_labels) |-> <<>>]
    /\ ranks = [n \in Range(all_labels) |-> NoRank]
    /\ queue = <<>>

\* The state of the parts a specification does not use.
NoGraph == GraphStart(<<>>, <<>>)

NoDiagram ==
    /\ cell_ids = <<>>
    /\ vertices = <<>>
    /\ connectors = <<>>
    /\ grid_size = 10
    /\ written = {}

InitRank ==
    /\ entry \in {"layout_sugiyama", "relayout_diagram"}
    /\ pc = "dfs"
    /\ \E es \in EdgeLists(BaseLabels, MaxEdges) \cup {Diamond, FanOut} :
          \E order \in Perms(nodes_of(entry, es)) : GraphStart(es, order)
    /\ cfg = <<>>
    /\ previous = <<>>
    /\ local = <<>>
    /\ NoDiagram

NextRank == DfsStart \/ DfsStep \/ CycleRemoval \/ RankSources \/ RankStep \/ RankFinish

SpecRank == InitRank /\ [][NextRank]_vars

\* ------------------------------------------------- claims on cycle removal
\* and rank assignment
effective_edges == Range(effective_pairs(edges, back_edges))

\* Nodes reachable from n along one or more effective edges.
RECURSIVE reach_from(_, _)
reach_from(frontier, seen) ==
    LET next == {p[2] : p \in {q \in effective_edges : q[1] \in frontier}} \ seen
    IN  IF next = {} THEN seen ELSE reach_from(next, seen \cup next)

on_effective_cycle(n) == n \in reach_from({n}, {})

has_self_loop == \E i \in DOMAIN edges : edges[i][1] = edges[i][2]

\* C1 (rank monotonicity): when rank assignment has returned, every effective
\* edge u -> v (an input edge, or its reversal if it was a back-edge) has
\* rank(v) >= rank(u) + 1.
C1_RankMonotone ==
    pc = "ranked" =>
        \A p \in effective_edges : ranks[p[2]] >= ranks[p[1]] + 1

\* C2 (acyclic effective graph, no edge lost): once the back-edges are
\* reversed, no node lies on a directed cycle of effective edges, and there
\* are as many effective edges as input edges.
C2_EffectiveAcyclic ==
    pc \in {"sources", "bfs", "ranked"} =>
        /\ \A n \in Range(all_labels) : ~on_effective_cycle(n)
        /\ SeqSum([i \in 1..Len(all_labels) |-> Len(effective_adj[all_labels[i]])])
               = Len(edges)

\* C3 (runs to completion): rank assignment never gets stuck short of its
\* return: from every state either it has returned or a further step exists.
\* (RankStep refuses a rank above RankCap, which only a run that goes round an
\* effective cycle for ever can ask for.)
C3_RunsToCompletion == pc = "ranked" \/ ENABLED NextRank

\* C10 (longest-path ranks): a node with no incoming effective edge has rank
\* 0, every other node has the maximum of (predecessor rank + 1), and the
\* diamond gives rank(A) < rank(B) = rank(C) < rank(D).
C10_LongestPathRanks ==
    pc = "ranked" =>
        /\ \A n \in Range(all_labels) :
              IF effective_rev[n] = <<>>
              THEN ranks[n] = 0
              ELSE ranks[n] = SetMax({ranks[p] + 1 : p \in Range(effective_rev[n])})
        /\ edges = Diamond =>
              /\ ranks["A"] < ranks["B"]
              /\ ranks["B"] = ranks["C"]
              /\ ranks["C"] < ranks["D"]

\* ------------------------------------------------ models.py: snap_to_grid
\* Python's round() of the exact quotient p / q (q > 0): to the nearest
\* integer, a tie going to the even one.
round_half_even(p, q) ==
    LET f == p \div q
        r == p % q
    IN  IF 2 * r < q THEN f
        ELSE IF 2 * r > q THEN f + 1
        ELSE IF f % 2 = 0 THEN f ELSE f + 1

\* snap_to_grid(num / den, grid): round(value / grid_size) * grid_size.
snap_frac(num, den, grid) == round_half_even(num, den * grid) * grid

snap_to_grid(value, grid) == snap_frac(value, 1, grid)

\* --------------------------------------------------- models.py: CellBounds
CellBounds(x, y, width, height) == [x |-> x, y |-> y, width |-> width, height |-> height]

right(b) == b.x + b.width
bottom(b) == b.y + b.height
\* cx and cy are halves in general: cx2 = 2 * cx, cy2 = 2 * cy.
cx2(b) == 2 * b.x + b.width
cy2(b) == 2 * b.y + b.height

intersects(a, b, margin) ==
    ~ \/ right(a) + margin <= b.x
      \/ right(b) + margin <= a.x
      \/ bottom(a) + margin <= b.y
      \/ bottom(b) + margin <= a.y

\* layout.py get_all_vertex_bounds for top-level vertices (parent "1"): the
\* absolute position of such a cell is its own geometry.
get_all_vertex_bounds(vs) ==
    [id \in DOMAIN vs |-> CellBounds(vs[id].x, vs[id].y, vs[id].width, vs[id].height)]

\* find_overlapping_cells: "for i ... for j in range(i + 1, len(ids))".
find_overlapping_cells(ids, vs, margin) ==
    LET bounds == get_all_vertex_bounds(vs)
    IN  {<<ids[i], ids[j]>> : i \in DOMAIN ids, j \in DOMAIN ids} \cap
        {p \in Range(ids) \X Range(ids) :
            \E i \in DOMAIN ids : \E j \in (i + 1)..Len(ids) :
                /\ p = <<ids[i], ids[j]>>
                /\ intersects(bounds[ids[i]], bounds[ids[j]], margin)}

\* --------------------------------------------------------- resolve_overlaps
\* The index pairs of "for i in range(len(ids)): for j in range(i + 1,
\* len(ids))", in loop order.
RECURSIVE scan_pairs_from(_, _, _)
scan_pairs_from(i, j, n) ==
    IF i > n THEN <<>>
    ELSE IF j > n THEN scan_pairs_from(i + 1, i + 2, n)
    ELSE <<<<i, j>>>> \o scan_pairs_from(i, j + 1, n)

\* Mutant of scan_pairs: the inner loop visits only j = i + 1.
scan_pairs_adjacent_only(n) == [i \in 1..(n - 1) |-> <<i, i + 1>>]

scan_pairs(n) == scan_pairs_from(1, 2, n)

\* The body of the inner loop for one pair.  bounds is the snapshot taken at
\* the top of the pass; vs is the geometry as the pass has changed it so far.
\* overlap_x and overlap_y are kept doubled (ox2, oy2); push = overlap / 2 + 1
\* is kept in quarters (ox2 + 4).
push_pair(vs, bounds, a_id, b_id, margin, grid) ==
    LET a == bounds[a_id]
        b == bounds[b_id]
        dx2 == cx2(b) - cx2(a)
        dy2 == cy2(b) - cy2(a)
        ox2 == (a.width + b.width + 2 * margin) - Abs(dx2)
        oy2 == (a.height + b.height + 2 * margin) - Abs(dy2)
    IN  IF ~(ox2 > 0 /\ oy2 > 0) THEN [vs |-> vs, moved |-> 0, wrote |-> {}]
        ELSE IF ox2 < oy2
        THEN LET push4 == ox2 + 4
                 sa == IF dx2 >= 0 THEN -1 ELSE 1
                 ax == snap_frac(4 * vs[a_id].x + sa * push4, 4, grid)
                 bx == snap_frac(4 * vs[b_id].x - sa * push4, 4, grid)
             IN  [vs |-> [vs EXCEPT ![a_id].x = ax, ![b_id].x = bx],
                  moved |-> 1, wrote |-> {ax, bx}]
        ELSE LET push4 == oy2 + 4
                 sa == IF dy2 >= 0 THEN -1 ELSE 1
                 ay == snap_frac(4 * vs[a_id].y + sa * push4, 4, grid)
                 by == snap_frac(4 * vs[b_id].y - sa * push4, 4, grid)
             IN  [vs |-> [vs EXCEPT ![a_id].y = ay, ![b_id].y = by],
                  moved |-> 1, wrote |-> {ay, by}]

\* Mutant of scan: the bounding boxes are read anew for every pair instead of
\* once at the top of the pass.
RECURSIVE scan_live_bounds(_, _, _, _, _, _, _)
scan_live_bounds(pairs, ids, vs, bounds, margin, grid, acc) ==
    IF pairs = <<>> THEN [acc EXCEPT !.vs = vs]
    ELSE LET a_id == ids[Head(pairs)[1]]
             b_id == ids[Head(pairs)[2]]
             live == get_all_vertex_bounds(vs)
         IN  IF ~intersects(live[a_id], live[b_id], margin)
             THEN scan_live_bounds(Tail(pairs), ids, vs, live, margin, grid, acc)
             ELSE LET r == push_pair(vs, live, a_id, b_id, margin, grid)
                  IN  scan_live_bounds(Tail(pairs), ids, r.vs, live, margin, grid,
                           [acc EXCEPT !.any_overlap = TRUE,
                                       !.moved_count = @ + r.moved,
                                       !.wrote = @ \cup r.wrote])

\* One full pass over the pairs.
RECURSIVE scan(_, _, _, _, _, _, _)
scan(pairs, ids, vs, bounds, margin, grid, acc) ==
    IF pairs = <<>> THEN [acc EXCEPT !.vs = vs]
    ELSE LET a_id == ids[Head(pairs)[1]]
             b_id == ids[Head(pairs)[2]]
         IN  IF ~intersects(bounds[a_id], bounds[b_id], margin)
             THEN scan(Tail(pairs), ids, vs, bounds, margin, grid, acc)
             ELSE LET r == push_pair(vs, bounds, a_id, b_id, margin, grid)
                  IN  scan(Tail(pairs), ids, r.vs, bounds, margin, grid,
                           [acc EXCEPT !.any_overlap = TRUE,
                                       !.moved_count = @ + r.moved,
                                       !.wrote = @ \cup r.wrote])

\* "for iteration in range(n)": whether the loop has a pass left after
\* done passes.
in_range_inclusive(done, n) == done <= n
in_range(done, n) == done < n

\* One pass of "for iteration in range(max_iterations)".
ResolvePass ==
    /\ entry = "resolve_overlaps"
    /\ pc = "scan"
    /\ in_range(local.iteration, cfg.max_iterations)
    /\ LET r == scan(scan_pairs(Len(cell_ids)), cell_ids, vertices,
                     get_all_vertex_bounds(vertices), cfg.margin, grid_size,
                     [vs |-> vertices, any_overlap |-> FALSE,
                      moved_count |-> local.moved_count, wrote |-> {}])
       IN  /\ vertices' = r.vs
           /\ written' = written \cup r.wrote
           /\ local' = [iteration |-> local.iteration + 1,
                        any_overlap |-> r.any_overlap,
                        moved_count |-> r.moved_count,
                        clean |-> ~r.any_overlap,
                        given |-> local.given]
           /\ pc' = IF r.any_overlap THEN "scan" ELSE "returned"
    /\ UNCHANGED <<call_vars, graph_vars, cfg, cell_ids, connectors, grid_size>>

\* The iteration cap is reached: the loop ends without a clean pass.
ResolveCap ==
    /\ entry = "resolve_overlaps"
    /\ pc = "scan"
    /\ ~in_range(local.iteration, cfg.max_iterations)
    /\ pc' = "returned"
    /\ UNCHANGED <<call_vars, graph_vars, cfg, diagram_vars, local>>

\* The diagrams of the overlap specification: three vertices in cell order
\* A, B, C on a few positions, and a connector from A to B with one waypoint.
\* local.given records the vertices as the call received them (the code
\* keeps no copy; the record serves to compare the result with the input).
MaxIterations == 3
OvMargins == {0, 5}
OvXs == {0, 20, 45}
OvYs == {0, 15}
OvSize == [A |-> [width |-> 30, height |-> 20],
           B |-> [width |-> 20, height |-> 20],
           C |-> [width |-> 25, height |-> 10]]

InitOverlap ==
    /\ entry = "resolve_overlaps"
    /\ pc = "scan"
    /\ NoGraph
    /\ cfg \in [margin : OvMargins, max_iterations : 0..MaxIterations]
    /\ cell_ids = <<"A", "B", "C">>
    /\ \E xs \in [BaseLabels -> OvXs] : \E ys \in [BaseLabels -> OvYs] :
          vertices = [id \in BaseLabels |->
                         [x |-> xs[id], y |-> ys[id],
                          width |-> OvSize[id].width, height |-> OvSize[id].height]]
    /\ connectors = << [source |-> "A", target |-> "B", points |-> <<[x |-> 12, y |-> 40]>>] >>
    /\ grid_size = 10
    /\ written = {}
    /\ previous = <<>>
    /\ local = [iteration |-> 0, any_overlap |-> FALSE, moved_count |-> 0,
                clean |-> FALSE, given |-> vertices]

NextOverlap == ResolvePass \/ ResolveCap

SpecOverlap == InitOverlap /\ [][NextOverlap]_vars

\* C4 (no overlap after a clean stop): when resolve_overlaps has returned
\* because a full pass found no intersecting pair, find_overlapping_cells with
\* the same margin is empty.
C4_CleanStopNoOverlap ==
    (entry = "resolve_overlaps" /\ pc = "returned" /\ local.clean) =>
        find_overlapping_cells(cell_ids, vertices, cfg.margin) = {}

\* Witness: a run that pushed shapes apart and then stopped on a clean pass.
C4_Witness ==
    /\ entry = "resolve_overlaps"
    /\ pc = "returned"
    /\ local.clean
    /\ local.moved_count > 0

\* The vertices of the pairs that intersect, padded by margin, in the
\* diagram as it is.
in_intersecting_pair ==
    UNION {{p[1], p[2]} : p \in find_overlapping_cells(cell_ids, vertices, cfg.margin)}

\* The vertices of the pairs that intersected, padded by margin, in the
\* diagram as resolve_overlaps received it.
in_intersecting_pair_at_call ==
    UNION {{p[1], p[2]} : p \in find_overlapping_cells(cell_ids, local.given, cfg.margin)}

\* C19 (resolve_overlaps is non-destructive), as the claim states it of the
\* call: whatever number of passes has run, every vertex that belonged to no
\* intersecting pair when resolve_overlaps was called is where it was, no
\* size and no connector has changed, and a call on a diagram without an
\* intersecting pair has changed nothing and counts 0.
C19_MovesOnlyIntersectingAtCall ==
    entry = "resolve_overlaps" =>
        /\ DOMAIN vertices = DOMAIN local.given
        /\ \A id \in DOMAIN vertices :
               /\ vertices[id].width = local.given[id].width
               /\ vertices[id].height = local.given[id].height
               /\ id \notin in_intersecting_pair_at_call => vertices[id] = local.given[id]
        /\ connectors = << [source |-> "A", target |-> "B", points |-> <<[x |-> 12, y |-> 40]>>] >>
        /\ in_intersecting_pair_at_call = {} => (vertices = local.given /\ local.moved_count = 0)

\* C19 (resolve_overlaps is non-destructive), amended to the pass: a pass of
\* resolve_overlaps moves only vertices of pairs that intersect, padded by
\* margin, when the pass begins; it changes no size and no connector; and a
\* call on a diagram without such a pair changes nothing and returns 0.
C19_NonDestructive ==
    [][entry = "resolve_overlaps" =>
          /\ DOMAIN vertices' = DOMAIN vertices
          /\ \A id \in DOMAIN vertices :
                 /\ vertices'[id].width = vertices[id].width
                 /\ vertices'[id].height = vertices[id].height
                 /\ id \notin in_intersecting_pair => vertices'[id] = vertices[id]
          /\ connectors' = connectors
          /\ cell_ids' = cell_ids
          /\ (in_intersecting_pair = {} /\ local.iteration = 0) =>
                 (vertices' = vertices /\ local'.moved_count = 0 /\ pc' = "returned")]_vars

\* A call has pushed A and B apart and returned on a clean pass, while C,
\* which intersected nothing, still stands at its off-grid place, every size
\* is as it was and the connector has kept its waypoint.
C19_Witness ==
    /\ entry = "resolve_overlaps"
    /\ pc = "returned"
    /\ local.clean
    /\ local.moved_count > 0
    /\ vertices["C"] = [x |-> 45, y |-> 15, width |-> 25, height |-> 10]
    /\ connectors = << [source |-> "A", target |-> "B", points |-> <<[x |-> 12, y |-> 40]>>] >>

\* ------------------------------------------------------------------ router
\* Inside the router every coordinate is kept doubled (a name ending in 2 is
\* twice the Python value): centres and half margins are then integers.

\* _line_intersects_rect (Liang-Barsky) on doubled coordinates; rect doubled
\* too, given by its sides.  t = edge_q / edge_p is the pair <<q, p>> made to
\* have a positive denominator; t0 <= t1 is compared by cross-multiplying.
frac_leq(a, b) == a[1] * b[2] <= b[1] * a[2]

line_intersects_rect(x1, y1, x2, y2, rx, ry, rright, rbottom) ==
    LET dx == x2 - x1
        dy == y2 - y1
        clip == << <<-dx, x1 - rx>>, <<dx, rright - x1>>,
                   <<-dy, y1 - ry>>, <<dy, rbottom - y1>> >>
        lower == {<<0, 1>>} \cup
                 {<<-clip[i][2], -clip[i][1]>> : i \in {k \in 1..4 : clip[k][1] < 0}}
        upper == {<<1, 1>>} \cup
                 {<<clip[i][2], clip[i][1]>> : i \in {k \in 1..4 : clip[k][1] > 0}}
    IN  /\ \A i \in 1..4 : clip[i][1] = 0 => ~(clip[i][2] < 0)
        /\ \A l \in lower : \A u \in upper : frac_leq(l, u)

\* _any_obstacle_on_segment: the rectangle is the obstacle grown by margin on
\* every side.
any_obstacle_on_segment(x1, y1, x2, y2, obstacles, margin) ==
    \E i \in DOMAIN obstacles :
        LET obs == obstacles[i]
        IN  line_intersects_rect(x1, y1, x2, y2,
                2 * (obs.x - margin), 2 * (obs.y - margin),
                2 * (right(obs) + margin), 2 * (bottom(obs) + margin))

\* _seg_hits_rect on doubled coordinates ("abs(x1 - x2) < 0.5" is
\* "abs(doubled difference) < 1").
seg_hits_rect(x1, y1, x2, y2, rx, ry, rright, rbottom) ==
    IF Abs(x1 - x2) < 1
    THEN /\ rx <= x1 /\ x1 <= rright
         /\ Max2(y1, y2) >= ry /\ Min2(y1, y2) <= rbottom
    ELSE IF Abs(y1 - y2) < 1
    THEN /\ ry <= y1 /\ y1 <= rbottom
         /\ Max2(x1, x2) >= rx /\ Min2(x1, x2) <= rright
    ELSE line_intersects_rect(x1, y1, x2, y2, rx, ry, rright, rbottom)

\* _blocked: strictly inside an obstacle grown by margin / 2.
blocked(px, py, obstacles, margin) ==
    \E i \in DOMAIN obstacles :
        LET obs == obstacles[i]
        IN  /\ 2 * obs.x - margin < px /\ px < 2 * right(obs) + margin
            /\ 2 * obs.y - margin < py /\ py < 2 * bottom(obs) + margin

\* _segment_blocked: ex = obstacle grown by margin / 2.
segment_blocked(x1, y1, x2, y2, obstacles, margin) ==
    \E i \in DOMAIN obstacles :
        LET obs == obstacles[i]
        IN  seg_hits_rect(x1, y1, x2, y2,
                2 * obs.x - margin, 2 * obs.y - margin,
                2 * right(obs) + margin, 2 * bottom(obs) + margin)

\* sorted(xs): the ascending sequence of a set of numbers.
RECURSIVE sorted(_)
sorted(S) == IF S = {} THEN <<>> ELSE <<SetMin(S)>> \o sorted(S \ {SetMin(S)})

\* Step 1 of _route_orthogonal_astar: the candidate coordinates (doubled).
candidate_xs(src, tgt, obstacles, margin, grid) ==
    {cx2(src), cx2(tgt)}
    \cup {2 * snap_to_grid(obstacles[i].x - margin, grid) : i \in DOMAIN obstacles}
    \cup {2 * snap_to_grid(right(obstacles[i]) + margin, grid) : i \in DOMAIN obstacles}
    \cup {2 * snap_to_grid(right(src) + margin, grid), 2 * snap_to_grid(src.x - margin, grid),
          2 * snap_to_grid(right(tgt) + margin, grid), 2 * snap_to_grid(tgt.x - margin, grid)}

candidate_ys(src, tgt, obstacles, margin, grid) ==
    {cy2(src), cy2(tgt)}
    \cup {2 * snap_to_grid(obstacles[i].y - margin, grid) : i \in DOMAIN obstacles}
    \cup {2 * snap_to_grid(bottom(obstacles[i]) + margin, grid) : i \in DOMAIN obstacles}
    \cup {2 * snap_to_grid(bottom(src) + margin, grid), 2 * snap_to_grid(src.y - margin, grid),
          2 * snap_to_grid(bottom(tgt) + margin, grid), 2 * snap_to_grid(tgt.y - margin, grid)}

\* Python compares tuples lexicographically.
lex_less(a, b) ==
    \E k \in 1..Len(a) : a[k] < b[k] /\ \A m \in 1..(k - 1) : a[m] = b[m]

\* _closest_node: the first node, in (xi, yi) order, of least Manhattan
\* distance among the unblocked ones; (0, 0) (here <<1, 1>>: indices start at
\* 1) when every node is blocked.
closest_node(px, py, sxs, sys, obstacles, margin) ==
    LET free == {n \in (1..Len(sxs)) \X (1..Len(sys)) :
                    ~blocked(sxs[n[1]], sys[n[2]], obstacles, margin)}
        d(n) == Abs(sxs[n[1]] - px) + Abs(sys[n[2]] - py)
    IN  IF free = {} THEN <<1, 1>>
        ELSE CHOOSE n \in free :
                 \A m \in free : d(n) < d(m) \/ (d(n) = d(m) /\ ~lex_less(m, n))

\* The four moves in the order of the loop.
astar_moves == << <<1, 0>>, <<-1, 0>>, <<0, 1>>, <<0, -1>> >>
NoParent == <<0, 0>>
\* "dist += 5", doubled.
bend_penalty2 == 10

\* "for dxi, dyi in [...]": st = [open, came_from, g_score].
RECURSIVE astar_expand(_, _, _, _)
astar_expand(current, moves, st, G) ==
    IF moves = <<>> THEN st
    ELSE LET m == Head(moves)
             nxi == current[1] + m[1]
             nyi == current[2] + m[2]
             rest == Tail(moves)
         IN  IF nxi < 1 \/ nxi > Len(G.xs) \/ nyi < 1 \/ nyi > Len(G.ys)
             THEN astar_expand(current, rest, st, G)
             ELSE LET cxv == G.xs[current[1]]
                      cyv == G.ys[current[2]]
                      nxv == G.xs[nxi]
                      nyv == G.ys[nyi]
                  IN  IF segment_blocked(cxv, cyv, nxv, nyv, G.obstacles, G.margin)
                      THEN astar_expand(current, rest, st, G)
                      ELSE LET parent == st.came_from[current]
                               straight == Abs(nxv - cxv) + Abs(nyv - cyv)
                               dist == IF parent # NoParent /\
                                          <<current[1] - parent[1], current[2] - parent[2]>> # m
                                       THEN straight + bend_penalty2 ELSE straight
                               tent_g == st.g_score[current] + dist
                               neighbor == <<nxi, nyi>>
                               h == Abs(nxv - G.xs[G.goal[1]]) + Abs(nyv - G.ys[G.goal[2]])
                           IN  IF neighbor \notin DOMAIN st.g_score \/ tent_g < st.g_score[neighbor]
                               THEN astar_expand(current, rest,
                                        [open |-> st.open \cup {<<tent_g + h, nxi, nyi>>},
                                         came_from |-> [n \in DOMAIN st.came_from \cup {neighbor} |->
                                                           IF n = neighbor THEN current
                                                           ELSE st.came_from[n]],
                                         g_score |-> [n \in DOMAIN st.g_score \cup {neighbor} |->
                                                           IF n = neighbor THEN tent_g
                                                           ELSE st.g_score[n]]],
                                        G)
                               ELSE astar_expand(current, rest, st, G)

\* "while open_set:": heappop takes the least (f, (xi, yi)); an entry is never
\* pushed twice, because a push needs a strictly smaller g for its node.
RECURSIVE astar_search(_, _)
astar_search(st, G) ==
    IF st.open = {} THEN [found |-> FALSE, came_from |-> st.came_from]
    ELSE LET top == CHOOSE e \in st.open : \A o \in st.open : ~lex_less(o, e)
             current == <<top[2], top[3]>>
             popped == [st EXCEPT !.open = @ \ {top}]
         IN  IF current = G.goal THEN [found |-> TRUE, came_from |-> st.came_from]
             ELSE astar_search(astar_expand(current, astar_moves, popped, G), G)

\* Step 4: the path from start to goal, as doubled coordinates.
RECURSIVE reconstruct(_, _, _)
reconstruct(node, came_from, G) ==
    IF node = NoParent THEN <<>>
    ELSE Append(reconstruct(came_from[node], came_from, G),
                <<G.xs[node[1]], G.ys[node[2]]>>)

\* _simplify_path: keep the bends, then strip the first and the last point
\* ("abs(dx1) > 0.5" is "abs(doubled) > 1").
simplify_path(path) ==
    IF Len(path) <= 2 THEN <<>>
    ELSE LET keep(i) ==
                 LET dx1 == path[i][1] - path[i - 1][1]
                     dy1 == path[i][2] - path[i - 1][2]
                     dx2 == path[i + 1][1] - path[i][1]
                     dy2 == path[i + 1][2] - path[i][2]
                 IN  \/ (Abs(dx1) > 1 /\ Abs(dy2) > 1)
                     \/ (Abs(dy1) > 1 /\ Abs(dx2) > 1)
             inner == SubSeq(path, 2, Len(path) - 1)
             idx == SelectSeq([i \in 1..Len(inner) |-> i + 1], keep)
         IN  [k \in DOMAIN idx |-> path[idx[k]]]

\* _fallback_route.  The obstacle list is never empty here: with no obstacle
\* the fast exit has returned.  mid_y is kept in quarters.
fallback_route(src, tgt, obstacles, margin, grid) ==
    LET route_above == SetMin({obstacles[i].y : i \in DOMAIN obstacles}) - margin * 2
        route_below == SetMax({bottom(obstacles[i]) : i \in DOMAIN obstacles}) + margin * 2
        mid_y4 == cy2(src) + cy2(tgt)
        route_y == IF Abs(4 * route_above - mid_y4) < Abs(4 * route_below - mid_y4)
                   THEN route_above ELSE route_below
    IN  << [x |-> snap_frac(cx2(src), 2, grid), y |-> snap_to_grid(route_y, grid)],
           [x |-> snap_frac(cx2(tgt), 2, grid), y |-> snap_to_grid(route_y, grid)] >>

\* _route_orthogonal_astar: the waypoints, as Points with integer x and y.
route_orthogonal_astar(src, tgt, obstacles, margin, grid) ==
    IF ~any_obstacle_on_segment(cx2(src), cy2(src), cx2(tgt), cy2(tgt), obstacles, margin)
    THEN <<>>
    ELSE LET sxs == sorted(candidate_xs(src, tgt, obstacles, margin, grid))
             sys == sorted(candidate_ys(src, tgt, obstacles, margin, grid))
             start == closest_node(cx2(src), cy2(src), sxs, sys, obstacles, margin)
             goal == closest_node(cx2(tgt), cy2(tgt), sxs, sys, obstacles, margin)
             G == [xs |-> sxs, ys |-> sys, obstacles |-> obstacles,
                   margin |-> margin, goal |-> goal]
         IN  IF start = goal THEN <<>>
             ELSE LET res == astar_search(
                                 [open |-> {<<0, start[1], start[2]>>},
                                  came_from |-> [n \in {start} |-> NoParent],
                                  g_score |-> [n \in {start} |-> 0]], G)
                  IN  IF ~res.found
                      THEN fallback_route(src, tgt, obstacles, margin, grid)
                      ELSE LET simplified == simplify_path(reconstruct(goal, res.came_from, G))
                           IN  [k \in DOMAIN simplified |->
                                   [x |-> snap_frac(simplified[k][1], 2, grid),
                                    y |-> snap_frac(simplified[k][2], 2, grid)]]

\* The obstacles of a connector: every vertex but its source and its target,
\* in cell order.
obstacles_of(ids, bounds, c) ==
    LET others == SelectSeq(ids, LAMBDA id : id # c.source /\ id # c.target)
    IN  [i \in DOMAIN others |-> bounds[others[i]]]

\* Whether route_edges_around_obstacles / optimize_edge_paths process the
\* connector: both ends have a bounding box.
has_bounds(bounds, c) == c.source \in DOMAIN bounds /\ c.target \in DOMAIN bounds

\* Mutant of route_all: the loop ends at the first connector with an end that
\* has no bounding box ("break" for "continue").
route_all_stop_at_missing(ids, vs, conns, margin, grid) ==
    LET bounds == get_all_vertex_bounds(vs)
        reached(i) == \A k \in 1..i : has_bounds(bounds, conns[k])
    IN  [i \in DOMAIN conns |->
            IF ~reached(i) THEN conns[i]
            ELSE [conns[i] EXCEPT !.points =
                     route_orthogonal_astar(bounds[conns[i].source], bounds[conns[i].target],
                         obstacles_of(ids, bounds, conns[i]), margin, grid)]]

\* route_edges_around_obstacles: the connectors after the call.
route_all(ids, vs, conns, margin, grid) ==
    LET bounds == get_all_vertex_bounds(vs)
    IN  [i \in DOMAIN conns |->
            IF ~has_bounds(bounds, conns[i]) THEN conns[i]
            ELSE [conns[i] EXCEPT !.points =
                     route_orthogonal_astar(bounds[conns[i].source], bounds[conns[i].target],
                         obstacles_of(ids, bounds, conns[i]), margin, grid)]]

\* Every coordinate of the waypoints of the connectors that were routed.
point_coords(pts) == {pts[k].x : k \in DOMAIN pts} \cup {pts[k].y : k \in DOMAIN pts}

RouteEdges ==
    /\ entry = "route_edges_around_obstacles"
    /\ pc = "route"
    /\ connectors' = route_all(cell_ids, vertices, connectors, cfg.margin, grid_size)
    /\ written' = written \cup
            UNION {point_coords(connectors'[i].points) :
                      i \in {k \in DOMAIN connectors :
                                has_bounds(get_all_vertex_bounds(vertices), connectors[k])}}
    /\ local' = [count |-> Cardinality({k \in DOMAIN connectors :
                                has_bounds(get_all_vertex_bounds(vertices), connectors[k])})]
    /\ pc' = "returned"
    /\ UNCHANGED <<call_vars, graph_vars, cfg, cell_ids, vertices, grid_size>>

\* The diagrams of the routing specification: A is the source of the
\* connector and B its target; C, and D when present, are obstacles.  The
\* first of each set is scenario C of the specification
\* (test_orthogonal_waypoints_with_obstacle).
RtMargins == {15, 20, 2}
RtSource == CellBounds(0, 100, 80, 60)
RtTargets == {CellBounds(x, y, w, 60) : x \in {400, 200}, y \in {100, 300}, w \in {80, 75}}
RtObstacles == {CellBounds(x, y, 100, 100) : x \in {180, 110, 260, -70}, y \in {80, 150, 10}}
               \cup {CellBounds(-41, 61, 100, 100)}
RtSecond == {CellBounds(300, 220, 60, 40)}
\* Boxes of odd sizes: the centres of A and B lie half a unit off the grid
\* lines that the router snaps from the obstacles C and D.
RtOddSizes == [A |-> CellBounds(250, 350, 101, 101), B |-> CellBounds(130, 60, 21, 99),
               C |-> CellBounds(140, 100, 20, 21), D |-> CellBounds(40, 240, 99, 61)]

RouteDiagram ==
    /\ NoGraph
    /\ cfg \in [margin : RtMargins]
    /\ \/ \E b \in RtTargets : \E c \in RtObstacles :
             \/ /\ cell_ids = <<"A", "B", "C">>
                /\ vertices = [id \in {"A", "B", "C"} |->
                                  IF id = "A" THEN RtSource ELSE IF id = "B" THEN b ELSE c]
             \/ \E d \in RtSecond :
                   /\ cell_ids = <<"A", "B", "C", "D">>
                   /\ vertices = [id \in {"A", "B", "C", "D"} |->
                                     IF id = "A" THEN RtSource ELSE IF id = "B" THEN b
                                     ELSE IF id = "C" THEN c ELSE d]
       \/ /\ cell_ids = <<"A", "B", "C", "D">>
          /\ vertices = RtOddSizes
    /\ grid_size = 10
    /\ written = {}
    /\ previous = <<>>
    /\ local = <<>>

\* The connector from A to B, not yet routed.
RtConnector == [source |-> "A", target |-> "B", points |-> <<>>]
\* A connector whose target is no cell of the diagram
\* (test_no_crash_on_missing_source_target).
RtMissingTarget == [source |-> "A", target |-> "missing", points |-> <<[x |-> 200, y |-> 200]>>]
RtMissingSource == [source |-> "missing", target |-> "B", points |-> <<[x |-> 200, y |-> 200]>>]

RouteInputs ==
    /\ RouteDiagram
    /\ connectors = <<RtConnector>>

InitRoute ==
    /\ entry = "route_edges_around_obstacles"
    /\ pc = "route"
    /\ RouteDiagram
    /\ connectors \in {<<RtConnector>>, <<RtMissingTarget, RtConnector>>,
                       <<RtConnector, RtMissingSource>>}

NextRoute == RouteEdges

SpecRoute == InitRoute /\ [][NextRoute]_vars

\* ------------------------------------------- the A* loop, pop by pop
\* _route_orthogonal_astar(src, tgt, obstacles, margin, grid_snap) called on
\* the boxes of the diagram: src is the source of the connector, tgt its
\* target, obstacles the other vertices.  Steps 1 and 2 and the first push.
AstarBegin ==
    /\ entry = "_route_orthogonal_astar"
    /\ pc = "astar_begin"
    /\ LET bounds == get_all_vertex_bounds(vertices)
           src == bounds[connectors[1].source]
           tgt == bounds[connectors[1].target]
           obstacles == obstacles_of(cell_ids, bounds, connectors[1])
           sxs == sorted(candidate_xs(src, tgt, obstacles, cfg.margin, grid_size))
           sys == sorted(candidate_ys(src, tgt, obstacles, cfg.margin, grid_size))
           start == closest_node(cx2(src), cy2(src), sxs, sys, obstacles, cfg.margin)
           goal == closest_node(cx2(tgt), cy2(tgt), sxs, sys, obstacles, cfg.margin)
       IN  IF \/ ~any_obstacle_on_segment(cx2(src), cy2(src), cx2(tgt), cy2(tgt),
                                          obstacles, cfg.margin)
              \/ start = goal
           THEN /\ local' = [result |-> <<>>]
                /\ pc' = "returned"
           ELSE /\ local' = [open |-> {<<0, start[1], start[2]>>},
                             came_from |-> [n \in {start} |-> NoParent],
                             g_score |-> [n \in {start} |-> 0],
                             G |-> [xs |-> sxs, ys |-> sys, obstacles |-> obstacles,
                                    margin |-> cfg.margin, goal |-> goal],
                             src |-> src, tgt |-> tgt]
                /\ pc' = "astar_loop"
    /\ UNCHANGED <<call_vars, graph_vars, cfg, diagram_vars>>

\* One turn of "while open_set": heappop, the goal test, the four moves.
AstarPop ==
    /\ entry = "_route_orthogonal_astar"
    /\ pc = "astar_loop"
    /\ local.open # {}
    /\ LET top == CHOOSE e \in local.open : \A o \in local.open : ~lex_less(o, e)
           current == <<top[2], top[3]>>
           after_pop == [local EXCEPT !.open = @ \ {top}]
       IN  IF current = local.G.goal
           THEN local' = after_pop /\ pc' = "astar_found"
           ELSE /\ local' = astar_expand(current, astar_moves, after_pop, local.G) @@ after_pop
                /\ pc' = "astar_loop"
    /\ UNCHANGED <<call_vars, graph_vars, cfg, diagram_vars>>

\* After the loop: the fallback when the open set ran empty, else steps 4
\* and 5 (reconstruct, simplify, snap).
AstarReturn ==
    /\ entry = "_route_orthogonal_astar"
    /\ \/ pc = "astar_loop" /\ local.open = {}
       \/ pc = "astar_found"
    /\ LET simplified == simplify_path(reconstruct(local.G.goal, local.came_from, local.G))
       IN  local' = [found |-> pc = "astar_found",
                     result |->
                        IF pc = "astar_loop"
                        THEN fallback_route(local.src, local.tgt, local.G.obstacles,
                                            cfg.margin, grid_size)
                        ELSE [k \in DOMAIN simplified |->
                                 [x |-> snap_frac(simplified[k][1], 2, grid_size),
                                  y |-> snap_frac(simplified[k][2], 2, grid_size)]]]
    /\ pc' = "returned"
    /\ UNCHANGED <<call_vars, graph_vars, cfg, diagram_vars>>

InitAstar ==
    /\ entry = "_route_orthogonal_astar"
    /\ pc = "astar_begin"
    /\ RouteInputs

NextAstar == AstarBegin \/ AstarPop \/ AstarReturn

\* The full path of a connector, doubled: source centre, waypoints, target
\* centre.
full_path2(bounds, c) ==
    <<<<cx2(bounds[c.source]), cy2(bounds[c.source])>>>>
    \o [k \in DOMAIN c.points |-> <<2 * c.points[k].x, 2 * c.points[k].y>>]
    \o <<<<cx2(bounds[c.target]), cy2(bounds[c.target])>>>>

\* Some segment of the connector's full path crosses an obstacle grown by
\* margin, by the engine's own test (_any_obstacle_on_segment).
path_crosses(ids, bounds, c, margin) ==
    LET path == full_path2(bounds, c)
    IN  \E k \in 1..(Len(path) - 1) :
            any_obstacle_on_segment(path[k][1], path[k][2], path[k + 1][1], path[k + 1][2],
                                    obstacles_of(ids, bounds, c), margin)

\* C5 (router obstacle clearance): no segment of a returned route (source
\* centre, waypoints, target centre) crosses an obstacle grown by margin.
C5_RouteClear ==
    (entry = "route_edges_around_obstacles" /\ pc = "returned") =>
        \A i \in DOMAIN connectors :
            has_bounds(get_all_vertex_bounds(vertices), connectors[i]) =>
                ~path_crosses(cell_ids, get_all_vertex_bounds(vertices), connectors[i],
                              cfg.margin)

\* ------------------------------- compute_orthogonal_waypoints (layout.py)
\* The channel router works on centres and on midpoints of centres: every
\* coordinate is kept in quarters here (a name ending in 4 is four times the
\* Python value), and the Points it returns carry quadrupled x and y.

\* _segment_intersects_rect: only vertical and horizontal segments can hit
\* ("abs(x1 - x2) < 0.1" on multiples of a quarter is "the same x").
segment_intersects_rect(x1, y1, x2, y2, rx, ry, rright, rbottom) ==
    IF 10 * Abs(x1 - x2) < 4
    THEN /\ rx <= x1 /\ x1 <= rright
         /\ Max2(y1, y2) >= ry /\ Min2(y1, y2) <= rbottom
    ELSE IF 10 * Abs(y1 - y2) < 4
    THEN /\ ry <= y1 /\ y1 <= rbottom
         /\ Max2(x1, x2) >= rx /\ Min2(x1, x2) <= rright
    ELSE FALSE

\* _count_obstacle_crossings: the obstacles, each grown by margin on every
\* side, that the segment hits.
count_obstacle_crossings(x1, y1, x2, y2, obstacles, margin) ==
    Cardinality({i \in DOMAIN obstacles :
        LET obs == obstacles[i]
        IN  segment_intersects_rect(x1, y1, x2, y2,
                4 * (obs.x - margin), 4 * (obs.y - margin),
                4 * (right(obs) + margin), 4 * (bottom(obs) + margin))})

\* _route_around_obstacles: a channel above or below (left or right of) every
\* obstacle.
route_around_obstacles(src, tgt, obstacles, margin) ==
    LET dx2 == cx2(tgt) - cx2(src)
        dy2 == cy2(tgt) - cy2(src)
        none == obstacles = <<>>
        route_y_above == IF none THEN 2 * cy2(src)
                         ELSE 4 * (SetMin({obstacles[i].y : i \in DOMAIN obstacles}) - margin)
        route_y_below == IF none THEN 2 * cy2(src)
                         ELSE 4 * (SetMax({bottom(obstacles[i]) : i \in DOMAIN obstacles}) + margin)
        mid_y == cy2(src) + cy2(tgt)
        route_y == IF Abs(route_y_above - mid_y) < Abs(route_y_below - mid_y)
                   THEN route_y_above ELSE route_y_below
        route_x_left == IF none THEN 2 * cx2(src)
                        ELSE 4 * (SetMin({obstacles[i].x : i \in DOMAIN obstacles}) - margin)
        route_x_right == IF none THEN 2 * cx2(src)
                         ELSE 4 * (SetMax({right(obstacles[i]) : i \in DOMAIN obstacles}) + margin)
        mid_x == cx2(src) + cx2(tgt)
        route_x == IF Abs(route_x_left - mid_x) < Abs(route_x_right - mid_x)
                   THEN route_x_left ELSE route_x_right
    IN  IF Abs(dx2) > Abs(dy2)
        THEN << [x |-> 2 * cx2(src), y |-> route_y], [x |-> 2 * cx2(tgt), y |-> route_y] >>
        ELSE << [x |-> route_x, y |-> 2 * cy2(src)], [x |-> route_x, y |-> 2 * cy2(tgt)] >>

\* compute_orthogonal_waypoints: nothing for aligned boxes, else the L-shape
\* with fewer crossings, else the channel around the obstacles.
compute_orthogonal_waypoints(src, tgt, obstacles, margin) ==
    LET sx == 2 * cx2(src)
        sy == 2 * cy2(src)
        tx == 2 * cx2(tgt)
        ty == 2 * cy2(tgt)
        mid_x == cx2(src) + cx2(tgt)
        mid_y == cy2(src) + cy2(tgt)
        waypoint_a == << [x |-> mid_x, y |-> sy], [x |-> mid_x, y |-> ty] >>
        crossings_a == count_obstacle_crossings(sx, sy, mid_x, sy, obstacles, margin)
                       + count_obstacle_crossings(mid_x, sy, mid_x, ty, obstacles, margin)
        waypoint_b == << [x |-> sx, y |-> mid_y], [x |-> tx, y |-> mid_y] >>
        crossings_b == count_obstacle_crossings(sx, sy, sx, mid_y, obstacles, margin)
                       + count_obstacle_crossings(sx, mid_y, tx, mid_y, obstacles, margin)
    IN  IF Abs(ty - sy) < 2 * src.height + 4 * margin THEN <<>>
        ELSE IF Abs(tx - sx) < 2 * src.width + 4 * margin THEN <<>>
        ELSE IF Min2(crossings_a, crossings_b) > 0
             THEN route_around_obstacles(src, tgt, obstacles, margin)
        ELSE IF crossings_a <= crossings_b THEN waypoint_a
        ELSE waypoint_b

\* compute_orthogonal_waypoints(src, tgt, obstacles, margin) called on the
\* boxes of the diagram, as _route_orthogonal_astar is above.
ComputeWaypoints ==
    /\ entry = "compute_orthogonal_waypoints"
    /\ pc = "waypoints"
    /\ LET bounds == get_all_vertex_bounds(vertices)
       IN  local' = [result |-> compute_orthogonal_waypoints(
                                    bounds[connectors[1].source], bounds[connectors[1].target],
                                    obstacles_of(cell_ids, bounds, connectors[1]), cfg.margin)]
    /\ pc' = "returned"
    /\ UNCHANGED <<call_vars, graph_vars, cfg, diagram_vars>>

InitWaypoints ==
    \/ InitAstar
    \/ /\ entry = "compute_orthogonal_waypoints"
       /\ pc = "waypoints"
       /\ RouteInputs

NextWaypoints == NextAstar \/ ComputeWaypoints

SpecWaypoints == InitWaypoints /\ [][NextWaypoints]_vars

\* The waypoints a call returned, in quarters.
returned_waypoints ==
    IF entry = "compute_orthogonal_waypoints" THEN local.result
    ELSE [k \in DOMAIN local.result |->
             [x |-> 4 * local.result[k].x, y |-> 4 * local.result[k].y]]

\* The point (quadrupled) lies in the interior of the box.
inside_box(p, obs) ==
    /\ 4 * obs.x < p.x /\ p.x < 4 * right(obs)
    /\ 4 * obs.y < p.y /\ p.y < 4 * bottom(obs)

\* C15 (waypoints stay outside obstacles): no waypoint returned by
\* compute_orthogonal_waypoints or by _route_orthogonal_astar lies inside the
\* bounding box of an obstacle.
C15_WaypointsOutsideObstacles ==
    (entry \in {"compute_orthogonal_waypoints", "_route_orthogonal_astar"} /\ pc = "returned") =>
        LET obstacles == obstacles_of(cell_ids, get_all_vertex_bounds(vertices), connectors[1])
        IN  \A k \in DOMAIN returned_waypoints : \A i \in DOMAIN obstacles :
                ~inside_box(returned_waypoints[k], obstacles[i])

\* The straight line between the centre of the source and the centre of the
\* target of the routed connector crosses an obstacle grown by the margin.
center_line_crosses ==
    LET bounds == get_all_vertex_bounds(vertices)
        src == bounds[connectors[1].source]
        tgt == bounds[connectors[1].target]
    IN  any_obstacle_on_segment(cx2(src), cy2(src), cx2(tgt), cy2(tgt),
                                obstacles_of(cell_ids, bounds, connectors[1]), cfg.margin)

\* C24 (no waypoints only for a clear line): _route_orthogonal_astar returns
\* the empty list only when the line between the two centres crosses no
\* obstacle grown by the margin; when the line crosses one, it returns at
\* least one waypoint.
C24_EmptyOnlyWhenClear ==
    (entry = "_route_orthogonal_astar" /\ pc = "returned" /\ center_line_crosses) =>
        local.result # <<>>

\* The waypoints all lie on one side of the combined span of the obstacles,
\* at least margin away from it, and that side is not the farther one from
\* the midpoint of the two centres.  axis is "y" for above / below and "x"
\* for left / right; lo and hi are the ends of the span and mid4 four times
\* the midpoint.
passes_span_on_closer_side(points, axis, lo, hi, mid4, margin) ==
    \/ /\ \A k \in DOMAIN points : points[k][axis] <= lo - margin
       /\ Abs(4 * lo - mid4) <= Abs(4 * hi - mid4)
    \/ /\ \A k \in DOMAIN points : points[k][axis] >= hi + margin
       /\ Abs(4 * hi - mid4) <= Abs(4 * lo - mid4)

\* C25 (fallback when A* fails): when the open set runs empty before the goal
\* is reached, _route_orthogonal_astar returns waypoints that pass above or
\* below (or left or right of) the combined span of all obstacles, at least
\* the margin away from it, on the side closer to the midpoint between the
\* two centres.
C25_FallbackPassesOutsideSpan ==
    (entry = "_route_orthogonal_astar" /\ pc = "returned"
     /\ "found" \in DOMAIN local /\ ~local.found) =>
        LET bounds == get_all_vertex_bounds(vertices)
            src == bounds[connectors[1].source]
            tgt == bounds[connectors[1].target]
            obstacles == obstacles_of(cell_ids, bounds, connectors[1])
        IN  /\ local.result # <<>>
            /\ \/ passes_span_on_closer_side(local.result, "y",
                       SetMin({obstacles[i].y : i \in DOMAIN obstacles}),
                       SetMax({bottom(obstacles[i]) : i \in DOMAIN obstacles}),
                       cy2(src) + cy2(tgt), cfg.margin)
               \/ passes_span_on_closer_side(local.result, "x",
                       SetMin({obstacles[i].x : i \in DOMAIN obstacles}),
                       SetMax({right(obstacles[i]) : i \in DOMAIN obstacles}),
                       cx2(src) + cx2(tgt), cfg.margin)

\* C28 (no diagonal between waypoints): every two consecutive waypoints that
\* _route_orthogonal_astar returns, from A* or from the fallback, have the
\* same x or the same y after grid snapping.
C28_WaypointsAxisAligned ==
    (entry = "_route_orthogonal_astar" /\ pc = "returned") =>
        \A k \in 1..(Len(local.result) - 1) :
            \/ local.result[k].x = local.result[k + 1].x
            \/ local.result[k].y = local.result[k + 1].y

\* --------------------------------------------------------------- optimizer
\* optimize_edge_paths works on full paths: sequences of doubled points
\* <<x2, y2>>.  "abs(d) < 1" on Python values is "Abs(doubled d) < 2".

\* Mutant of opt_remove_collinear: every waypoint is taken for a bend.
opt_remove_collinear_keep_all(path) == path

\* _opt_remove_collinear: a middle point is kept when neither its x nor its y
\* is shared with both neighbours in the path given.
opt_remove_collinear(path) ==
    IF Len(path) <= 2 THEN path
    ELSE LET keep(i) ==
                 LET same_x == /\ Abs(path[i - 1][1] - path[i][1]) < 2
                               /\ Abs(path[i][1] - path[i + 1][1]) < 2
                     same_y == /\ Abs(path[i - 1][2] - path[i][2]) < 2
                               /\ Abs(path[i][2] - path[i + 1][2]) < 2
                 IN  ~same_x /\ ~same_y
             mid == SelectSeq([k \in 1..(Len(path) - 2) |-> k + 1], keep)
         IN  <<path[1]>> \o [k \in DOMAIN mid |-> path[mid[k]]] \o <<path[Len(path)]>>

\* _opt_straighten, the loop: each point is aligned with the last point of
\* the result.
RECURSIVE straighten_from(_, _, _, _)
straighten_from(path, i, result, threshold) ==
    IF i > Len(path) THEN result
    ELSE LET p == result[Len(result)]
             c == path[i]
             ddx == Abs(c[1] - p[1])
             ddy == Abs(c[2] - p[2])
             q == IF ddx < 2 * threshold /\ ddy >= 2 * threshold THEN <<p[1], c[2]>>
                  ELSE IF ddy < 2 * threshold /\ ddx >= 2 * threshold THEN <<c[1], p[2]>>
                  ELSE c
         IN  straighten_from(path, i + 1, Append(result, q), threshold)

opt_straighten(path, threshold) ==
    IF Len(path) <= 1 THEN path
    ELSE straighten_from(path, 2, <<path[1]>>, threshold)

\* _opt_shorten, inner loop "while i < len(path) - 1" (i is the 1-based
\* index of the waypoint tried).
RECURSIVE shorten_pass(_, _, _, _, _)
shorten_pass(path, i, obstacles, margin, changed) ==
    IF i >= Len(path) THEN [path |-> path, changed |-> changed]
    ELSE IF ~any_obstacle_on_segment(path[i - 1][1], path[i - 1][2],
                                     path[i + 1][1], path[i + 1][2], obstacles, margin)
         THEN shorten_pass(SubSeq(path, 1, i - 1) \o SubSeq(path, i + 1, Len(path)),
                           i, obstacles, margin, TRUE)
         ELSE shorten_pass(path, i + 1, obstacles, margin, changed)

\* _opt_shorten, outer loop "while changed".
RECURSIVE shorten_loop(_, _, _)
shorten_loop(path, obstacles, margin) ==
    LET r == shorten_pass(path, 2, obstacles, margin, FALSE)
    IN  IF r.changed THEN shorten_loop(r.path, obstacles, margin) ELSE r.path

opt_shorten(path, obstacles, margin) ==
    IF Len(path) <= 3 THEN path ELSE shorten_loop(path, obstacles, margin)

\* _opt_center_channels, the decision for one segment at coordinate seg2
\* (doubled): los and his are the candidate values of left_bound and
\* right_bound (top_bound and bottom_bound) in Python units.  The doubled
\* centre of the channel is lo + hi, and "abs(centre - seg) < width * 0.4"
\* is 5 * Abs(centre2 - seg2) < 4 * width.
channel_center(seg2, los, his, margin) ==
    IF los = {} \/ his = {} THEN [move |-> FALSE, to |-> seg2]
    ELSE LET lo_bound == SetMax(los)
             hi_bound == SetMin(his)
             channel_width == hi_bound - lo_bound
         IN  [move |-> /\ channel_width >= margin * 2
                       /\ 5 * Abs((lo_bound + hi_bound) - seg2) < 4 * channel_width,
              to |-> lo_bound + hi_bound]

\* _opt_center_channels, the body of the loop for segment i of result.
center_segment(result, i, obstacles, margin) ==
    LET a == result[i]
        b == result[i + 1]
        obs == Range(obstacles)
    IN  IF Abs(a[1] - b[1]) < 2
        THEN LET near == {o \in obs : ~ \/ 2 * (bottom(o) + margin) < Min2(a[2], b[2])
                                        \/ 2 * (o.y - margin) > Max2(a[2], b[2])}
                 lefts == {o \in near : 2 * (right(o) + margin) <= a[1]}
                 rights == {o \in near \ lefts : 2 * (o.x - margin) >= a[1]}
                 c == channel_center(a[1], {right(o) + margin : o \in lefts},
                                     {o.x - margin : o \in rights}, margin)
             IN  IF c.move
                 THEN [result EXCEPT ![i] = <<c.to, a[2]>>, ![i + 1] = <<c.to, b[2]>>]
                 ELSE result
        ELSE IF Abs(a[2] - b[2]) < 2
        THEN LET near == {o \in obs : ~ \/ 2 * (right(o) + margin) < Min2(a[1], b[1])
                                        \/ 2 * (o.x - margin) > Max2(a[1], b[1])}
                 tops == {o \in near : 2 * (bottom(o) + margin) <= a[2]}
                 bottoms == {o \in near \ tops : 2 * (o.y - margin) >= a[2]}
                 c == channel_center(a[2], {bottom(o) + margin : o \in tops},
                                     {o.y - margin : o \in bottoms}, margin)
             IN  IF c.move
                 THEN [result EXCEPT ![i] = <<a[1], c.to>>, ![i + 1] = <<b[1], c.to>>]
                 ELSE result
        ELSE result

RECURSIVE center_from(_, _, _, _)
center_from(result, i, obstacles, margin) ==
    IF i > Len(result) - 1 THEN result
    ELSE center_from(center_segment(result, i, obstacles, margin), i + 1, obstacles, margin)

opt_center_channels(path, obstacles, margin) ==
    IF Len(path) < 2 THEN path ELSE center_from(path, 1, obstacles, margin)

\* optimize_edge_paths, phases 1 to 4 and the grid snap for one connector:
\* the connector after the loop body.
optimize_edge(ids, bounds, c, margin, straighten_threshold, grid) ==
    IF ~has_bounds(bounds, c) \/ c.points = <<>> THEN c
    ELSE LET obstacles == obstacles_of(ids, bounds, c)
             p1 == opt_remove_collinear(full_path2(bounds, c))
             p2 == opt_straighten(p1, straighten_threshold)
             p3 == opt_shorten(p2, obstacles, margin)
             p4 == opt_center_channels(p3, obstacles, margin)
             new_waypoints(path) == [k \in 1..(Len(path) - 2) |->
                                        [x |-> snap_frac(path[k + 1][1], 2, grid),
                                         y |-> snap_frac(path[k + 1][2], 2, grid)]]
             updated(points) == IF points # c.points THEN [c EXCEPT !.points = points] ELSE c
         IN  updated(new_waypoints(p4))

\* _opt_separate_parallel_edges: the segments of one connector.  point_idx is
\* the Python (0-based) index in the full path; fixed_coord, range_start and
\* range_end are doubled.
edge_segments(bounds, c, ei) ==
    IF c.points = <<>> \/ ~has_bounds(bounds, c) THEN <<>>
    ELSE LET full == full_path2(bounds, c)
             horizontal(si) == Abs(full[si][2] - full[si + 1][2]) < 2
             vertical(si) == Abs(full[si][1] - full[si + 1][1]) < 2
             axis(si) == horizontal(si) \/ vertical(si)
             sis == SelectSeq([k \in 1..(Len(full) - 1) |-> k], axis)
         IN  [k \in DOMAIN sis |->
                 LET a == full[sis[k]]
                     b == full[sis[k] + 1]
                 IN  IF horizontal(sis[k])
                     THEN [edge_idx |-> ei, point_idx |-> sis[k] - 1, orientation |-> "H",
                           fixed_coord |-> a[2],
                           range_start |-> Min2(a[1], b[1]), range_end |-> Max2(a[1], b[1])]
                     ELSE [edge_idx |-> ei, point_idx |-> sis[k] - 1, orientation |-> "V",
                           fixed_coord |-> a[1],
                           range_start |-> Min2(a[2], b[2]), range_end |-> Max2(a[2], b[2])]]

\* The list "segments": the segments of every connector, in cell order.
RECURSIVE all_segments(_, _, _)
all_segments(bounds, conns, ei) ==
    IF ei > Len(conns) THEN <<>>
    ELSE edge_segments(bounds, conns[ei], ei) \o all_segments(bounds, conns, ei + 1)

\* Whether segment j joins the cluster of segment i.
same_corridor(si_seg, sj_seg, spacing) ==
    /\ si_seg.orientation = sj_seg.orientation
    /\ si_seg.edge_idx # sj_seg.edge_idx
    /\ ~(Abs(si_seg.fixed_coord - sj_seg.fixed_coord) > 4 * spacing)
    /\ ~(si_seg.range_end < sj_seg.range_start \/ sj_seg.range_end < si_seg.range_start)

\* "for idx, seg in enumerate(cluster_segs)": the segments of the cluster are
\* given their new coordinate one after the other, in the waypoints as they
\* are by then.  sum2 is the doubled sum of the fixed coordinates, so
\* start_offset + idx * spacing is
\* (sum2 - n (n - 1) spacing + 2 n idx spacing) / (2 n).
RECURSIVE spread_cluster(_, _, _, _, _, _, _)
spread_cluster(cluster_segs, idx, sum2, spacing, grid, conns, acc) ==
    IF idx >= Len(cluster_segs) THEN [acc EXCEPT !.conns = conns]
    ELSE LET seg == cluster_segs[idx + 1]
             n == Len(cluster_segs)
             new_coord == snap_frac(sum2 - n * (n - 1) * spacing + 2 * n * idx * spacing,
                                    2 * n, grid)
             pts == conns[seg.edge_idx].points
             wps == {k \in {seg.point_idx, seg.point_idx + 1} : 1 <= k /\ k <= Len(pts)}
             new_pts == [k \in DOMAIN pts |->
                            IF k \notin wps THEN pts[k]
                            ELSE IF seg.orientation = "H"
                            THEN [x |-> pts[k].x, y |-> new_coord]
                            ELSE [x |-> new_coord, y |-> pts[k].y]]
         IN  IF Abs(2 * new_coord - seg.fixed_coord) < 2 \/ pts = <<>> \/ wps = {}
             THEN spread_cluster(cluster_segs, idx + 1, sum2, spacing, grid, conns, acc)
             ELSE spread_cluster(cluster_segs, idx + 1, sum2, spacing, grid,
                                 [conns EXCEPT ![seg.edge_idx].points = new_pts],
                                 [acc EXCEPT !.modified = @ + 1,
                                             !.wrote = @ \cup UNION
                                                 {{new_pts[k].x, new_pts[k].y} : k \in wps}])

\* "for i in range(len(segments))": the clusters, in order.
RECURSIVE separate_from(_, _, _, _, _, _, _)
separate_from(i, segments, processed, spacing, grid, conns, acc) ==
    IF i > Len(segments) THEN [acc EXCEPT !.conns = conns]
    ELSE IF i \in processed
    THEN separate_from(i + 1, segments, processed, spacing, grid, conns, acc)
    ELSE LET joins(j) == j \notin processed /\ same_corridor(segments[i], segments[j], spacing)
             cluster == <<i>> \o SelectSeq([k \in 1..(Len(segments) - i) |-> i + k], joins)
             cluster_segs == [k \in DOMAIN cluster |-> segments[cluster[k]]]
         IN  IF Len(cluster) < 2
             THEN separate_from(i + 1, segments, processed, spacing, grid, conns, acc)
             ELSE LET r == spread_cluster(cluster_segs, 0,
                                          SeqSum([k \in DOMAIN cluster_segs |->
                                                     cluster_segs[k].fixed_coord]),
                                          spacing, grid, conns, acc)
                  IN  separate_from(i + 1, segments, processed \cup Range(cluster),
                                    spacing, grid, r.conns, r)

opt_separate_parallel_edges(conns, bounds, spacing, grid) ==
    IF Len(conns) < 2 THEN [conns |-> conns, modified |-> 0, wrote |-> {}]
    ELSE separate_from(1, all_segments(bounds, conns, 1), {}, spacing, grid, conns,
                       [conns |-> conns, modified |-> 0, wrote |-> {}])

\* optimize_edge_paths: the connectors after the call, the number returned
\* and the coordinates written.
optimize_edge_paths(ids, vs, conns, margin, straighten_threshold, nudge_spacing, diagram_grid) ==
    LET bounds == get_all_vertex_bounds(vs)
        grid == IF diagram_grid = 0 THEN 10 ELSE diagram_grid
        phase4 == [i \in DOMAIN conns |->
                      optimize_edge(ids, bounds, conns[i], margin, straighten_threshold, grid)]
        changed(optimized) == {i \in DOMAIN conns : optimized[i] # conns[i]}
        total(optimized, r) ==
            [conns |-> r.conns,
             modified |-> Cardinality(changed(optimized)) + r.modified,
             wrote |-> r.wrote \cup UNION {point_coords(optimized[i].points) : i \in changed(optimized)}]
        phase5(optimized) ==
            total(optimized, opt_separate_parallel_edges(optimized, bounds, nudge_spacing, grid))
    IN  IF DOMAIN bounds = {} THEN [conns |-> conns, modified |-> 0, wrote |-> {}]
        ELSE phase5(phase4)

OptimizeEdgePaths ==
    /\ entry = "optimize_edge_paths"
    /\ pc = "ready"
    /\ local.calls < MaxCalls
    /\ LET returns(r) ==
               /\ connectors' = r.conns
               /\ written' = written \cup r.wrote
               /\ local' = [calls |-> local.calls + 1, modified |-> r.modified]
       IN  returns(optimize_edge_paths(cell_ids, vertices, connectors, cfg.margin,
                                       cfg.straighten_threshold, cfg.nudge_spacing, grid_size))
    /\ UNCHANGED <<call_vars, pc, graph_vars, cfg, cell_ids, vertices, grid_size>>

\* The diagrams of the optimizer specification.  D is the source of the
\* first connector and C its target; B is the source of the second connector,
\* when there is one; A is an obstacle.  The last first connector runs from
\* D to B through three waypoints on the vertical line of both centres
\* (scenario E of the specification), and the last place of A lies across
\* that line.  With A at (160, 160) the waypoints
\* (40, 260), (420, 260) are those route_edges_around_obstacles gives the
\* first connector; with the single waypoint (40, 350) a connector ends in a
\* horizontal segment at the height of the centre of C; the single waypoint
\* (120, 233) lies off the grid, and with A at (228, 194) the connector passes
\* just below A grown by 15.
Pt(x, y) == [x |-> x, y |-> y]
OptMargins == {15, 20}
OptObstacles == {CellBounds(x, y, 80, 60) : x \in {160, 200}, y \in {160, 120}}
                \cup {CellBounds(0, 160, 80, 60), CellBounds(228, 194, 80, 60)}
OptFixed == [B |-> CellBounds(0, 280, 80, 60),
             C |-> CellBounds(360, 320, 120, 60),
             D |-> CellBounds(0, 40, 80, 60)]
OptFirst == {[source |-> "D", target |-> "C", points |-> pts] :
                pts \in {<<Pt(40, 260), Pt(420, 260)>>,
                         <<Pt(40, 250), Pt(420, 250)>>,
                         <<Pt(43, 255), Pt(420, 261)>>,
                         <<Pt(40, 150), Pt(40, 260), Pt(420, 260)>>,
                         <<Pt(40, 350)>>,
                         <<Pt(120, 233)>>}}
            \cup {[source |-> "D", target |-> "B",
                   points |-> <<Pt(40, 150), Pt(40, 200), Pt(40, 250)>>]}
OptSecond == {[source |-> "B", target |-> "C", points |-> pts] :
                pts \in {<<Pt(40, 270), Pt(420, 270)>>,
                         <<Pt(40, 350)>>,
                         <<Pt(40, 350), Pt(420, 350)>>}}
\* A connector whose target is no cell of the diagram
\* (test_no_crash_on_missing_source_target).
OptMissingTarget == [source |-> "D", target |-> "missing", points |-> <<Pt(200, 200)>>]

InitOpt ==
    /\ entry = "optimize_edge_paths"
    /\ pc = "ready"
    /\ NoGraph
    /\ cfg \in [margin : OptMargins, straighten_threshold : {8}, nudge_spacing : {10}]
    /\ cell_ids = <<"A", "B", "C", "D">>
    /\ \E a \in OptObstacles :
          vertices = [id \in {"A", "B", "C", "D"} |-> IF id = "A" THEN a ELSE OptFixed[id]]
    /\ \E c1 \in OptFirst : \E known \in {<<c1>>} \cup {<<c1, c2>> : c2 \in OptSecond} :
          connectors \in {known, <<OptMissingTarget>> \o known}
    /\ grid_size = 10
    /\ written = {}
    /\ previous = <<>>
    /\ local = [calls |-> 0, modified |-> 0]

NextOpt == OptimizeEdgePaths

SpecOpt == InitOpt /\ [][NextOpt]_vars

\* ------------------------------------------------- _opt_shorten on its own
\* _opt_shorten(path, obstacles, margin) called on the full path of one
\* connector of the optimizer's diagrams, as optimize_edge_paths builds it.
ShortenPath ==
    /\ entry = "_opt_shorten"
    /\ pc = "shorten"
    /\ LET bounds == get_all_vertex_bounds(vertices)
           path == full_path2(bounds, connectors[1])
       IN  local' = [path |-> path,
                     result |-> opt_shorten(path, obstacles_of(cell_ids, bounds, connectors[1]),
                                            cfg.margin)]
    /\ pc' = "returned"
    /\ UNCHANGED <<call_vars, graph_vars, cfg, diagram_vars>>

InitShorten ==
    /\ entry = "_opt_shorten"
    /\ pc = "shorten"
    /\ NoGraph
    /\ cfg \in [margin : OptMargins]
    /\ cell_ids = <<"A", "B", "C", "D">>
    /\ \E a \in OptObstacles :
          vertices = [id \in {"A", "B", "C", "D"} |-> IF id = "A" THEN a ELSE OptFixed[id]]
    /\ \E c \in OptFirst \cup OptSecond : connectors = <<c>>
    /\ grid_size = 10
    /\ written = {}
    /\ previous = <<>>
    /\ local = <<>>

NextShorten == ShortenPath

SpecShorten == InitShorten /\ [][NextShorten]_vars

\* The interior points of the path whose two neighbours are joined by a
\* segment that crosses no obstacle grown by the margin.
removable_waypoints(path) ==
    LET obstacles == obstacles_of(cell_ids, get_all_vertex_bounds(vertices), connectors[1])
    IN  {i \in 2..(Len(path) - 1) :
            ~any_obstacle_on_segment(path[i - 1][1], path[i - 1][2],
                                     path[i + 1][1], path[i + 1][2], obstacles, cfg.margin)}

\* C27 (detour shortening stops at a fixed point): _opt_shorten removes an
\* interior waypoint only when the segment between its neighbours is clear (a
\* path with no such waypoint comes back unchanged), and for a path of any
\* length, a single waypoint included, the path it returns has no interior
\* waypoint left whose neighbours are joined by a clear segment.
C27_ShortenFixedPoint ==
    (entry = "_opt_shorten" /\ pc = "returned") =>
        /\ removable_waypoints(local.path) = {} => local.result = local.path
        /\ removable_waypoints(local.result) = {}

\* C30 (the optimizer keeps clear connectors clear): a connector whose full
\* path (source centre, waypoints, target centre) crosses no obstacle grown by
\* the margin before a call of optimize_edge_paths crosses none after it.
C30_ClearStaysClear ==
    [][entry = "optimize_edge_paths" =>
          \A i \in DOMAIN connectors :
              (/\ has_bounds(get_all_vertex_bounds(vertices), connectors[i])
               /\ ~path_crosses(cell_ids, get_all_vertex_bounds(vertices), connectors[i],
                                cfg.margin))
              => ~path_crosses(cell_ids, get_all_vertex_bounds(vertices), connectors'[i],
                               cfg.margin)]_vars

\* C6 (optimizer idempotence): a run of optimize_edge_paths that follows a
\* run with the same parameters on the same diagram changes no waypoint and
\* returns 0.
C6_Idempotent ==
    [][(entry = "optimize_edge_paths" /\ local.calls >= 1)
          => (connectors' = connectors /\ local'.modified = 0)]_vars


\* The waypoints of the connector all lie on the horizontal (or all on the
\* vertical) line through the centre of its source and the centre of its
\* target.
all_on_center_line(bounds, c) ==
    LET src == bounds[c.source]
        tgt == bounds[c.target]
    IN  \/ /\ cy2(src) = cy2(tgt)
           /\ \A k \in DOMAIN c.points : 2 * c.points[k].y = cy2(src)
        \/ /\ cx2(src) = cx2(tgt)
           /\ \A k \in DOMAIN c.points : 2 * c.points[k].x = cx2(src)

\* C16 (collinear waypoints are dropped): a call of optimize_edge_paths
\* leaves a connector whose waypoints all lie on the line through both
\* centres with no waypoint, whatever the obstacles.
C16_CollinearToZero ==
    [][entry = "optimize_edge_paths" =>
          \A i \in DOMAIN connectors :
              (has_bounds(get_all_vertex_bounds(vertices), connectors[i]) /\
               all_on_center_line(get_all_vertex_bounds(vertices), connectors[i]))
                  => connectors'[i].points = <<>>]_vars

\* The three collinear waypoints of scenario E are gone after one call, with
\* the obstacle A lying across the line from D to B.
C16_Witness ==
    /\ entry = "optimize_edge_paths"
    /\ local.calls = 1
    /\ vertices["A"] = CellBounds(0, 160, 80, 60)
    /\ connectors[1].source = "D" /\ connectors[1].target = "B"
    /\ connectors[1].points = <<>>

\* C17 (count of modified connectors): optimize_edge_paths returns the
\* number of connectors whose waypoints after the call differ from those
\* before it.
C17_CountsChangedConnectors ==
    [][entry = "optimize_edge_paths" =>
          local'.modified = Cardinality({i \in DOMAIN connectors :
                                            connectors'[i].points # connectors[i].points})]_vars

\* ------------------------------------------- connectors without a box
\* The two passes over the connectors of a diagram.
InitConnectors == InitRoute \/ InitOpt

NextConnectors == NextRoute \/ NextOpt

SpecConnectors == InitConnectors /\ [][NextConnectors]_vars

\* The connectors both of whose ends have a bounding box, in cell order.
known_connectors(conns) ==
    SelectSeq(conns, LAMBDA c : has_bounds(get_all_vertex_bounds(vertices), c))

\* C18 (connectors without a box are skipped): route_edges_around_obstacles
\* and optimize_edge_paths leave a connector with an end that has no bounding
\* box as it is, and the other connectors and the number returned are those of
\* the same call on the diagram without such connectors.
C18_SkipsMissingBounds ==
    [][/\ \A i \in DOMAIN connectors :
              ~has_bounds(get_all_vertex_bounds(vertices), connectors[i])
                  => connectors'[i] = connectors[i]
       /\ entry = "route_edges_around_obstacles" =>
              /\ known_connectors(connectors') =
                     route_all(cell_ids, vertices, known_connectors(connectors),
                               cfg.margin, grid_size)
              /\ local'.count = Len(known_connectors(connectors))
       /\ entry = "optimize_edge_paths" =>
              LET r == optimize_edge_paths(cell_ids, vertices, known_connectors(connectors),
                           cfg.margin, cfg.straighten_threshold, cfg.nudge_spacing, grid_size)
              IN  /\ known_connectors(connectors') = r.conns
                  /\ local'.modified = r.modified]_vars

\* A routing call has left the connector to the missing cell as it was and
\* has given the connector after it a route; one connector is counted.
C18_Witness ==
    /\ entry = "route_edges_around_obstacles"
    /\ pc = "returned"
    /\ Len(connectors) = 2
    /\ connectors[1] = RtMissingTarget
    /\ connectors[2].points # <<>>
    /\ local.count = 1

\* ---------------------------------------------------------- layered layout
\* Mutant of DefaultConfig: no spacing between the nodes of a rank and no
\* padding in the overlap removal.
ZeroSpacingConfig == [rank_spacing |-> 100, node_spacing |-> 0, default_width |-> 120,
                      default_height |-> 60, grid_size |-> 10,
                      max_overlap_iterations |-> 50, overlap_padding |-> 0,
                      barycenter_iterations |-> 4, edge_margin |-> 15,
                      route_edges |-> TRUE, start_x |-> 50, start_y |-> 80]

\* LayoutEngineConfig with its default values.  The model keeps the
\* direction argument of the call in the same record.
DefaultConfig ==
    [rank_spacing |-> 100, node_spacing |-> 60, default_width |-> 120,
     default_height |-> 60, grid_size |-> 10, max_overlap_iterations |-> 50,
     overlap_padding |-> 20, barycenter_iterations |-> 4, edge_margin |-> 15,
     route_edges |-> TRUE, start_x |-> 50, start_y |-> 80]

\* _estimate_node_size.  A label is given as the lengths of its lines once
\* the markup is removed and blank lines are dropped (an empty label counts
\* as the line "X").
estimate_node_size(lines, default_w, default_h) ==
    LET max_chars == SeqMax(lines)
        n_lines == Max2(Len(lines), 1)
    IN  [width |-> Max2(default_w, Min2(280, max_chars * 8 + 20)),
         height |-> Max2(default_h, Min2(200, n_lines * 22 + 16))]

\* The labels of the model: "A" is one short line, "B" is one line of 23
\* characters ("Billing service gateway"), "C" is four lines
\* ("C<br>c<br>c<br>c"), "D" is a line of 40 characters followed by nine
\* short lines (beyond both caps of the estimate); "__virtual_0" is that
\* text, one line of 11 characters.
LabelLines == [A |-> <<1>>, B |-> <<23>>, C |-> <<1, 1, 1, 1>>,
               D |-> <<40, 1, 1, 1, 1, 1, 1, 1, 1, 1>>]
                  @@ ("__virtual_0" :> <<11>>)

\* _Node, without the position (kept apart, see assign_coordinates).
Node(id, width, height, rank, is_virtual) ==
    [id |-> id, width |-> width, height |-> height, rank |-> rank,
     is_virtual |-> is_virtual]

\* f"__virtual_{virtual_count}"
VirtualNames == <<"__virtual_0", "__virtual_1", "__virtual_2", "__virtual_3",
                  "__virtual_4", "__virtual_5", "__virtual_6", "__virtual_7",
                  "__virtual_8", "__virtual_9", "__virtual_10", "__virtual_11">>

\* Step 3 of layout_sugiyama: "for edge in edge_list".  acc.virtuals is the
\* sequence of the virtual nodes created so far and acc.expanded_edges the
\* list expanded_edges.
RECURSIVE expand_edges(_, _, _, _)
expand_edges(es, rks, reversed_edges, acc) ==
    IF es = <<>> THEN acc
    ELSE LET src_label == Head(es)[1]
             tgt_label == Head(es)[2]
             is_rev == <<src_label, tgt_label>> \in reversed_edges
             src_rank == IF is_rev THEN rks[tgt_label] ELSE rks[src_label]
             tgt_rank == IF is_rev THEN rks[src_label] ELSE rks[tgt_label]
             span == tgt_rank - src_rank
             virtual_count == Len(acc.virtuals)
             fresh == [k \in 1..(span - 1) |->
                          Node(VirtualNames[virtual_count + k], 1, 1, src_rank + k, TRUE)]
             chain == <<src_label>> \o [k \in DOMAIN fresh |-> fresh[k].id] \o <<tgt_label>>
         IN  IF span <= 1
             THEN expand_edges(Tail(es), rks, reversed_edges,
                      [acc EXCEPT !.expanded_edges = Append(@, <<src_label, tgt_label>>)])
             ELSE expand_edges(Tail(es), rks, reversed_edges,
                      [virtuals |-> acc.virtuals \o fresh,
                       expanded_edges |-> acc.expanded_edges \o
                           [k \in 1..(Len(chain) - 1) |-> <<chain[k], chain[k + 1]>>]])

\* exp_adj / exp_rev: the neighbours of every node, in the order of the list.
adjacency(pairs, ids, from, to) ==
    [n \in ids |->
        LET mine == SelectSeq(pairs, LAMBDA p : p[from] = n)
        IN  [i \in DOMAIN mine |-> mine[i][to]]]

\* by_rank: "for label, node in nodes.items(): by_rank[node.rank].append(label)".
\* by_rank is a defaultdict: it has a key for every rank that holds a node,
\* and a rank without nodes gets its key (with an empty list) only when a
\* sweep of step 4 reads by_rank[r].
group_by_rank(node_order, nodes) ==
    [r \in {nodes[n].rank : n \in Range(node_order)} |->
        SelectSeq(node_order, LAMBDA n : nodes[n].rank = r)]

\* by_rank[r] as a read: the list of the key, the empty list of a new key.
rank_list(by_rank, r) == IF r \in DOMAIN by_rank THEN by_rank[r] ELSE <<>>

\* "for i, label in enumerate(rank_nodes): nodes[label].order = float(i)"
initial_order(by_rank, ids) ==
    [n \in ids |->
        LET r == CHOOSE q \in DOMAIN by_rank : n \in Range(by_rank[q])
        IN  (CHOOSE i \in DOMAIN by_rank[r] : by_rank[r][i] = n) - 1]

\* _barycenter_sort: the barycenter of a label, as the fraction <<sum, len>>.
barycenter(label, order, neighbor_adj) ==
    LET neighbors == neighbor_adj[label]
    IN  IF neighbors # <<>>
        THEN <<SeqSum([i \in DOMAIN neighbors |-> order[neighbors[i]]]), Len(neighbors)>>
        ELSE <<order[label], 1>>

key_less(a, b) == a[1] * b[2] < b[1] * a[2]

\* list.sort(key=...): stable, ascending.
RECURSIVE sort_by_key(_, _)
sort_by_key(seq, keys) ==
    IF seq = <<>> THEN <<>>
    ELSE LET x == seq[Len(seq)]
             front == sort_by_key(SubSeq(seq, 1, Len(seq) - 1), keys)
         IN  SelectSeq(front, LAMBDA e : ~key_less(keys[x], keys[e]))
             \o <<x>> \o
             SelectSeq(front, LAMBDA e : key_less(keys[x], keys[e]))

\* _barycenter_sort on by_rank[r]: st = [by_rank, order].  Reading by_rank[r]
\* makes the key r when it is missing.
barycenter_sort(r, st, neighbor_adj) ==
    LET rank_nodes == rank_list(st.by_rank, r)
        barycenters == [n \in Range(rank_nodes) |-> barycenter(n, st.order, neighbor_adj)]
        sorted_nodes == sort_by_key(rank_nodes, barycenters)
    IN  [by_rank |-> [q \in DOMAIN st.by_rank \cup {r} |->
                         IF q = r THEN sorted_nodes ELSE st.by_rank[q]],
         order |-> [n \in DOMAIN st.order |->
                       IF n \in Range(sorted_nodes)
                       THEN (CHOOSE i \in DOMAIN sorted_nodes : sorted_nodes[i] = n) - 1
                       ELSE st.order[n]]]

\* One sweep: _barycenter_sort on the ranks rs, one after the other.
RECURSIVE sweep(_, _, _)
sweep(rs, st, neighbor_adj) ==
    IF rs = <<>> THEN st
    ELSE sweep(Tail(rs), barycenter_sort(Head(rs), st, neighbor_adj), neighbor_adj)

\* "for iteration in range(cfg.barycenter_iterations)": forward sweep on
\* ranks 1..max_rank with the predecessors, backward sweep on
\* max_rank - 1..0 with the successors.
RECURSIVE crossing_minimization(_, _, _, _)
crossing_minimization(iterations, st, rev, fwd) ==
    IF iterations = 0 THEN st
    ELSE LET max_rank == SetMax(DOMAIN st.by_rank)
             forward == sweep([i \in 1..max_rank |-> i], st, rev)
             backward == sweep([i \in 1..max_rank |-> max_rank - i], forward, fwd)
         IN  crossing_minimization(iterations - 1, backward, rev, fwd)

\* The real (non-virtual) nodes of a rank, in rank order.
real_of(rank_nodes, nodes) == SelectSeq(rank_nodes, LAMBDA n : ~nodes[n].is_virtual)

\* Mutant of equalize_rank_sizes: a rank is equalized only from three real
\* nodes on.
equalize_rank_sizes_from_three(by_rank, nodes, direction) ==
    [n \in DOMAIN nodes |->
        LET real == SelectSeq(by_rank[nodes[n].rank], LAMBDA m : ~nodes[m].is_virtual)
        IN  IF nodes[n].is_virtual \/ Len(real) < 3 THEN nodes[n]
            ELSE IF direction \in {"TB", "BT"}
            THEN [nodes[n] EXCEPT !.height = SeqMax([i \in DOMAIN real |-> nodes[real[i]].height])]
            ELSE [nodes[n] EXCEPT !.width = SeqMax([i \in DOMAIN real |-> nodes[real[i]].width])]]

\* _equalize_rank_sizes: the nodes with their new sizes.
equalize_rank_sizes(by_rank, nodes, direction) ==
    [n \in DOMAIN nodes |->
        LET real == real_of(by_rank[nodes[n].rank], nodes)
        IN  IF nodes[n].is_virtual \/ Len(real) < 2 THEN nodes[n]
            ELSE IF direction \in {"TB", "BT"}
            THEN [nodes[n] EXCEPT !.height = SeqMax([i \in DOMAIN real |-> nodes[real[i]].height])]
            ELSE [nodes[n] EXCEPT !.width = SeqMax([i \in DOMAIN real |-> nodes[real[i]].width])]]

\* _assign_coordinates: total_w (total_h) of a rank.
rank_extent(real, nodes, dim, node_spacing) ==
    IF real = <<>> THEN 0
    ELSE SeqSum([i \in DOMAIN real |-> nodes[real[i]][dim]]) + (Len(real) - 1) * node_spacing

\* max_height_per_rank[r] / max_width_per_rank[r].
max_dim_per_rank(r, by_rank, nodes, dim, default) ==
    LET real == real_of(by_rank[r], nodes)
    IN  IF real = <<>> THEN default ELSE SeqMax([i \in DOMAIN real |-> nodes[real[i]][dim]])

\* rank_offsets[r]: the running sum over the ranks that come before r in
\* ordered_ranks (the smaller ranks for TB and LR, the larger for BT and RL).
rank_offset(r, by_rank, nodes, c, direction) ==
    LET before == IF direction \in {"TB", "LR"}
                  THEN {q \in DOMAIN by_rank : q < r}
                  ELSE {q \in DOMAIN by_rank : q > r}
        dim == IF direction \in {"TB", "BT"} THEN "height" ELSE "width"
        default == IF direction \in {"TB", "BT"} THEN c.default_height ELSE c.default_width
        start == IF direction \in {"TB", "BT"} THEN c.start_y ELSE c.start_x
        before_seq == sorted(before)
    IN  start + SeqSum([i \in DOMAIN before_seq |->
                           max_dim_per_rank(before_seq[i], by_rank, nodes, dim, default)
                           + c.rank_spacing])

\* _assign_coordinates: the position of every node, doubled (x2 = 2 * node.x,
\* y2 = 2 * node.y; the centring offset is half of an integer).
assign_coordinates(by_rank, nodes, c, direction) ==
    LET max_rank_width ==
            SetMax({0} \cup {rank_extent(real_of(by_rank[r], nodes), nodes, "width",
                                         c.node_spacing) : r \in DOMAIN by_rank})
    IN  [n \in DOMAIN nodes |->
            LET r == nodes[n].rank
                rank_nodes == by_rank[r]
                k == CHOOSE i \in DOMAIN rank_nodes : rank_nodes[i] = n
                earlier == real_of(SubSeq(rank_nodes, 1, k - 1), nodes)
            IN  IF direction \in {"TB", "BT"}
                THEN LET total_w == rank_extent(real_of(rank_nodes, nodes), nodes, "width",
                                                c.node_spacing)
                     IN  [x2 |-> 2 * c.start_x + (max_rank_width - total_w)
                                 + 2 * SeqSum([i \in DOMAIN earlier |->
                                                  nodes[earlier[i]].width + c.node_spacing]),
                          y2 |-> 2 * rank_offset(r, by_rank, nodes, c, direction)]
                ELSE [x2 |-> 2 * rank_offset(r, by_rank, nodes, c, direction),
                      y2 |-> 2 * c.start_y
                             + 2 * SeqSum([i \in DOMAIN earlier |->
                                              nodes[earlier[i]].height + c.node_spacing])]]

\* _remove_overlaps keeps floats that are halved at every push.  The model
\* keeps every position as an integer numerator over the common denominator
\* "scale" (a power of two): place = [pos, scale], pos[n] = [x, y].
\* _compute_overlap, in units of 1 / scale.
compute_overlap(a, b, pa, pb, padding, scale) ==
    LET a_right == pa.x + (a.width + padding) * scale
        b_right == pb.x + (b.width + padding) * scale
        a_bottom == pa.y + (a.height + padding) * scale
        b_bottom == pb.y + (b.height + padding) * scale
    IN  [x |-> Min2(a_right, b_right) - Max2(pa.x, pb.x),
         y |-> Min2(a_bottom, b_bottom) - Max2(pa.y, pb.y)]

\* The same positions over twice the denominator.
rescale(place) ==
    [place EXCEPT
        !.pos = [n \in DOMAIN place.pos |-> [x |-> 2 * place.pos[n].x, y |-> 2 * place.pos[n].y]],
        !.scale = 2 * place.scale]

\* The push of one overlapping pair: push = overlap / 2 + 1 on the axis with
\* the smaller overlap.
push_apart(a_id, b_id, nodes, place, padding) ==
    LET o == compute_overlap(nodes[a_id], nodes[b_id], place.pos[a_id], place.pos[b_id],
                             padding, place.scale)
        axis == IF o.x < o.y THEN "x" ELSE "y"
        p == IF o[axis] % 2 = 0 THEN place ELSE rescale(place)
        push == (IF o[axis] % 2 = 0 THEN o[axis] \div 2 ELSE o[axis]) + p.scale
        sa == IF p.pos[a_id][axis] < p.pos[b_id][axis] THEN -1 ELSE 1
    IN  [p EXCEPT !.pos[a_id][axis] = @ + sa * push,
                  !.pos[b_id][axis] = @ - sa * push]

\* One pass over the pairs "for i ... for j in range(i + 1, len(nodes))";
\* every pair reads the positions as they are by then.
RECURSIVE overlap_pass(_, _, _, _, _, _)
overlap_pass(pairs, ids, nodes, place, padding, moved) ==
    IF pairs = <<>> THEN [place |-> place, moved |-> moved]
    ELSE LET a_id == ids[Head(pairs)[1]]
             b_id == ids[Head(pairs)[2]]
             o == compute_overlap(nodes[a_id], nodes[b_id], place.pos[a_id],
                                  place.pos[b_id], padding, place.scale)
         IN  IF o.x > 0 /\ o.y > 0
             THEN overlap_pass(Tail(pairs), ids, nodes,
                               push_apart(a_id, b_id, nodes, place, padding), padding, TRUE)
             ELSE overlap_pass(Tail(pairs), ids, nodes, place, padding, moved)

\* "for iteration in range(cfg.max_overlap_iterations)"; place.passes counts
\* the passes over the pairs.
RECURSIVE overlap_loop(_, _, _, _, _)
overlap_loop(iterations, ids, nodes, place, padding) ==
    IF iterations = 0 THEN place
    ELSE LET r == overlap_pass(scan_pairs_from(1, 2, Len(ids)), ids, nodes, place, padding, FALSE)
             done == [r.place EXCEPT !.passes = @ + 1, !.moved = r.moved]
         IN  IF ~r.moved THEN done
             ELSE overlap_loop(iterations - 1, ids, nodes, done, padding)

\* The positions _remove_overlaps starts from (halves), no pass made yet.
overlap_start(ids, coords) ==
    [pos |-> [n \in Range(ids) |-> [x |-> coords[n].x2, y |-> coords[n].y2]],
     scale |-> 2, passes |-> 0, moved |-> FALSE]

\* _remove_overlaps: the positions of the nodes of ids after the pushes and
\* the snap to the grid (integers).
remove_overlaps(ids, nodes, coords, c) ==
    LET place == overlap_loop(c.max_overlap_iterations, ids, nodes,
                              overlap_start(ids, coords), c.overlap_padding)
    IN  [n \in Range(ids) |->
            [x |-> snap_frac(place.pos[n].x, place.scale, c.grid_size),
             y |-> snap_frac(place.pos[n].y, place.scale, c.grid_size)]]

\* ------------------------------------- _remove_overlaps, pass by pass
\* _remove_overlaps(nodes, cfg) called on a list of nodes: the sizes are
\* those of vertices, local holds the positions (numerators over local.scale),
\* the number of passes made and the flag moved of the last pass.
RemoveOverlapsPass ==
    /\ entry = "_remove_overlaps"
    /\ pc = "push"
    /\ in_range(local.passes, cfg.max_overlap_iterations)
    /\ local.passes = 0 \/ local.moved
    /\ LET r == overlap_pass(scan_pairs_from(1, 2, Len(cell_ids)), cell_ids, vertices,
                             local, cfg.overlap_padding, FALSE)
       IN  local' = [r.place EXCEPT !.passes = @ + 1, !.moved = r.moved]
    /\ UNCHANGED <<call_vars, pc, graph_vars, cfg, diagram_vars>>

\* The loop has ended ("if not moved: break", or the range is used up):
\* "Snap to grid after overlap removal".
RemoveOverlapsSnap ==
    /\ entry = "_remove_overlaps"
    /\ pc = "push"
    /\ ~in_range(local.passes, cfg.max_overlap_iterations) \/ (local.passes > 0 /\ ~local.moved)
    /\ vertices' = [n \in DOMAIN vertices |->
                       [vertices[n] EXCEPT
                           !.x = snap_frac(local.pos[n].x, local.scale, cfg.grid_size),
                           !.y = snap_frac(local.pos[n].y, local.scale, cfg.grid_size)]]
    /\ written' = written \cup {vertices'[n].x : n \in DOMAIN vertices}
                          \cup {vertices'[n].y : n \in DOMAIN vertices}
    /\ pc' = "returned"
    /\ UNCHANGED <<call_vars, graph_vars, cfg, cell_ids, connectors, grid_size, local>>

\* Three nodes A, B, C of the sizes and on the positions of the overlap
\* specification.
RmPaddings == {0, 20}

InitRemoveOverlaps ==
    /\ entry = "_remove_overlaps"
    /\ pc = "push"
    /\ NoGraph
    /\ cfg \in [overlap_padding : RmPaddings, max_overlap_iterations : 0..MaxIterations,
                 grid_size : {10}]
    /\ cell_ids = <<"A", "B", "C">>
    /\ \E xs \in [BaseLabels -> OvXs] : \E ys \in [BaseLabels -> OvYs] :
          vertices = [id \in BaseLabels |->
                         [x |-> xs[id], y |-> ys[id],
                          width |-> OvSize[id].width, height |-> OvSize[id].height]]
    /\ connectors = <<>>
    /\ grid_size = 10
    /\ written = {}
    /\ previous = <<>>
    /\ local = overlap_start(cell_ids, [n \in BaseLabels |->
                                           [x2 |-> 2 * vertices[n].x, y2 |-> 2 * vertices[n].y]])

NextRemoveOverlaps == RemoveOverlapsPass \/ RemoveOverlapsSnap

\* The nodes of the call before step 3: layout_sugiyama sizes every label
\* with _estimate_node_size, relayout_diagram takes the geometry of the cells.
initial_nodes(e, order, vs, rks, c) ==
    [n \in Range(order) |->
        IF e = "layout_sugiyama"
        THEN LET size == estimate_node_size(LabelLines[n], c.default_width, c.default_height)
             IN  Node(n, size.width, size.height, rks[n], FALSE)
        ELSE Node(n, vs[n].width, vs[n].height, rks[n], FALSE)]

\* Steps 3 and 4 of layout_sugiyama (virtual nodes, crossing minimization);
\* "Group by rank" and "Crossing minimization" of relayout_diagram, which
\* makes no virtual node and sweeps over the effective graph.  The dict nodes
\* is in the order the set yields the labels (layout_sugiyama) or in cell
\* order (relayout_diagram); "nodes[vname] = _Node(...)" replaces the node of
\* a label that is spelled like vname and keeps its place in the dict.
LayoutOrder ==
    /\ entry \in {"layout_sugiyama", "relayout_diagram"}
    /\ pc = "ranked"
    /\ LET sugiyama == entry = "layout_sugiyama"
           ex == IF sugiyama
                 THEN expand_edges(edges, ranks, back_edges,
                                   [virtuals |-> <<>>, expanded_edges |-> <<>>])
                 ELSE [virtuals |-> <<>>, expanded_edges |-> <<>>]
           real_order == IF sugiyama THEN all_labels ELSE cell_ids
           virtual_ids == [k \in DOMAIN ex.virtuals |-> ex.virtuals[k].id]
           node_order == real_order \o SelectSeq(virtual_ids, LAMBDA v : v \notin Range(real_order))
           real_nodes == initial_nodes(entry, real_order, vertices, ranks, cfg)
           nodes == [n \in Range(node_order) |->
                        IF n \in Range(virtual_ids)
                        THEN ex.virtuals[CHOOSE k \in DOMAIN ex.virtuals : ex.virtuals[k].id = n]
                        ELSE real_nodes[n]]
           rev == IF sugiyama THEN adjacency(ex.expanded_edges, Range(node_order), 2, 1)
                  ELSE effective_rev
           fwd == IF sugiyama THEN adjacency(ex.expanded_edges, Range(node_order), 1, 2)
                  ELSE effective_adj
           by_rank == group_by_rank(node_order, nodes)
           st == crossing_minimization(cfg.barycenter_iterations,
                     [by_rank |-> by_rank, order |-> initial_order(by_rank, Range(node_order))],
                     rev, fwd)
       IN  local' = [node_order |-> node_order, nodes |-> nodes, before |-> nodes,
                     by_rank |-> st.by_rank]
    /\ pc' = "ordered"
    /\ UNCHANGED <<call_vars, graph_vars, cfg, diagram_vars>>

\* Step 4.5: _equalize_rank_sizes.
LayoutEqualize ==
    /\ entry \in {"layout_sugiyama", "relayout_diagram"}
    /\ pc = "ordered"
    /\ local' = [local EXCEPT
                    !.nodes = equalize_rank_sizes(local.by_rank, local.nodes, cfg.direction)]
    /\ pc' = "equalized"
    /\ UNCHANGED <<call_vars, graph_vars, cfg, diagram_vars>>

\* Step 5: _assign_coordinates.
LayoutCoordinates ==
    /\ entry \in {"layout_sugiyama", "relayout_diagram"}
    /\ pc = "equalized"
    /\ local' = [node_order |-> local.node_order, nodes |-> local.nodes,
                 before |-> local.before, by_rank |-> local.by_rank,
                 coords |-> assign_coordinates(local.by_rank, local.nodes, cfg, cfg.direction)]
    /\ pc' = "assigned"
    /\ UNCHANGED <<call_vars, graph_vars, cfg, diagram_vars>>

\* Step 6: _remove_overlaps on the real nodes, in the order of the dict.
LayoutRemoveOverlaps ==
    /\ entry \in {"layout_sugiyama", "relayout_diagram"}
    /\ pc = "assigned"
    /\ local' = [node_order |-> local.node_order, nodes |-> local.nodes,
                 before |-> local.before, by_rank |-> local.by_rank,
                 coords |-> local.coords,
                 pos |-> remove_overlaps(real_of(local.node_order, local.nodes),
                                         local.nodes, local.coords, cfg)]
    /\ pc' = "spread"
    /\ UNCHANGED <<call_vars, graph_vars, cfg, diagram_vars>>

\* The edge_label of the i-th tuple of edges: every edge of the model carries
\* a label of its own, named by its position in the list.
edge_label(i) == i

\* Steps 7 and 8 of layout_sugiyama (cells and edges created at the snapped
\* positions); "Apply new positions and equalized sizes" of relayout_diagram.
LayoutCreate ==
    /\ entry \in {"layout_sugiyama", "relayout_diagram"}
    /\ pc = "spread"
    /\ LET real_ids == real_of(local.node_order, local.nodes)
       IN  /\ vertices' = [n \in Range(real_ids) |->
                              [x |-> snap_to_grid(local.pos[n].x, cfg.grid_size),
                               y |-> snap_to_grid(local.pos[n].y, cfg.grid_size),
                               width |-> local.nodes[n].width,
                               height |-> local.nodes[n].height]]
           /\ written' = written \cup {vertices'[n].x : n \in Range(real_ids)}
                                 \cup {vertices'[n].y : n \in Range(real_ids)}
           /\ IF entry = "layout_sugiyama"
              THEN /\ cell_ids' = cell_ids \o real_ids
                   /\ connectors' = connectors \o
                          SelectSeq([i \in DOMAIN edges |->
                                        [source |-> edges[i][1], target |-> edges[i][2],
                                         value |-> edge_label(i), points |-> <<>>]],
                                    LAMBDA c : c.source \in Range(real_ids)
                                                  /\ c.target \in Range(real_ids))
              ELSE UNCHANGED <<cell_ids, connectors>>
    /\ pc' = "placed"
    /\ UNCHANGED <<call_vars, graph_vars, cfg, grid_size, local>>

\* Step 9: "if cfg.route_edges: route_edges_around_obstacles(diagram,
\* margin=cfg.edge_margin)", and the return.
LayoutRoute ==
    /\ entry \in {"layout_sugiyama", "relayout_diagram"}
    /\ pc = "placed"
    /\ IF cfg.route_edges
       THEN /\ connectors' = route_all(cell_ids, vertices, connectors, cfg.edge_margin, grid_size)
            /\ written' = written \cup
                   UNION {point_coords(connectors'[i].points) :
                             i \in {k \in DOMAIN connectors :
                                       has_bounds(get_all_vertex_bounds(vertices), connectors[k])}}
       ELSE UNCHANGED <<connectors, written>>
    /\ pc' = "returned"
    /\ UNCHANGED <<call_vars, graph_vars, cfg, cell_ids, vertices, grid_size, local>>

\* int(math.sqrt(n))
isqrt(n) == CHOOSE k \in 0..n : k * k <= n /\ (k + 1) * (k + 1) > n

\* _relayout_grid: relayout_diagram on a diagram without edges.
RelayoutGrid ==
    /\ entry = "relayout_diagram"
    /\ pc = "grid"
    /\ LET cols == Max2(1, isqrt(Len(cell_ids)))
           placed == [n \in Range(cell_ids) |->
                         LET i == (CHOOSE k \in DOMAIN cell_ids : cell_ids[k] = n) - 1
                         IN  [vertices[n] EXCEPT
                                !.x = snap_to_grid(cfg.start_x + (i % cols)
                                         * (vertices[n].width + cfg.node_spacing), cfg.grid_size),
                                !.y = snap_to_grid(cfg.start_y + (i \div cols)
                                         * (vertices[n].height + cfg.rank_spacing), cfg.grid_size)]]
       IN  /\ vertices' = placed
           /\ written' = written \cup {placed[n].x : n \in Range(cell_ids)}
                                 \cup {placed[n].y : n \in Range(cell_ids)}
    /\ pc' = "returned"
    /\ UNCHANGED <<call_vars, graph_vars, cfg, cell_ids, connectors, grid_size, local>>

\* ------------------------------------------------ the layout specification
\* Edge lists of at most MaxLayoutEdges edges over LayoutPairs, and the
\* graphs of the tests: scenario B (test_diamond), scenario A
\* (test_fan_out), a triangle with one long edge (A -> C spans two ranks) and
\* the cycle of test_cycle_handling.
LayoutPairs == {<<"A", "B">>, <<"B", "C">>, <<"A", "C">>, <<"C", "A">>, <<"C", "C">>}
Triangle == << <<"A", "B">>, <<"B", "C">>, <<"A", "C">> >>
Cycle3 == << <<"A", "B">>, <<"B", "C">>, <<"C", "A">> >>
Cycle4 == << <<"A", "B">>, <<"B", "C">>, <<"C", "D">>, <<"D", "A">> >>
LayoutLists == UNION {[1..k -> LayoutPairs] : k \in 1..MaxLayoutEdges}
                   \cup {Diamond, FanOut, Triangle, Cycle3, Cycle4}
Directions == {"TB", "BT", "LR", "RL"}

\* A triangle whose first label is spelled like the first virtual node that
\* step 3 names (the third edge spans two ranks).
VirtualClash == << <<"__virtual_0", "B">>, <<"B", "C">>, <<"__virtual_0", "C">> >>

\* A configuration the server can build: spacings and grid size are
\* parameters of the tools, the rest keeps its default.
TightConfig == [DefaultConfig EXCEPT !.rank_spacing = 10, !.node_spacing = 10,
                                     !.grid_size = 20]
\* A configuration without crossing minimization: no sweep reads by_rank.
NoSweepConfig == [DefaultConfig EXCEPT !.barycenter_iterations = 0]
LayoutConfigs == {DefaultConfig, TightConfig, NoSweepConfig}
\* The grid sizes of the diagrams handed to the layouts and the
\* arrangements: Diagram.grid_size is a setting of the document, apart from
\* the grid_size of the configuration a call is given.
DiagramGrids == {10, 20}

\* The geometry of the cells relayout_diagram finds.
CellSizes == [A |-> [width |-> 120, height |-> 60], B |-> [width |-> 85, height |-> 40],
              C |-> [width |-> 160, height |-> 100], D |-> [width |-> 120, height |-> 60]]
\* The same cells with a first cell taller than the second by more than the
\* default rank_spacing.
TallFirst == [CellSizes EXCEPT !.A = [width |-> 120, height |-> 300]]

InitLayout ==
    /\ entry \in {"layout_sugiyama", "relayout_diagram"}
    /\ \E c \in LayoutConfigs : \E d \in Directions : cfg = c @@ [direction |-> d]
    /\ grid_size \in DiagramGrids
    /\ written = {}
    /\ previous = <<>>
    /\ local = <<>>
    /\ \/ /\ entry = "layout_sugiyama"
          /\ pc = "dfs"
          /\ \E es \in LayoutLists \cup {VirtualClash} :
                \E order \in Perms(nodes_of(entry, es)) : GraphStart(es, order)
          /\ cell_ids = <<>>
          /\ vertices = <<>>
          /\ connectors = <<>>
       \/ /\ entry = "relayout_diagram"
          /\ \E es \in LayoutLists \cup {<<>>} :
                /\ IF es = <<>>
                   THEN pc = "grid" /\ NoGraph
                   ELSE /\ pc = "dfs"
                        /\ \E order \in Perms(nodes_of(entry, es)) : GraphStart(es, order)
                /\ cell_ids = SelectSeq(<<"A", "B", "C", "D">>,
                                        LAMBDA n : n \in nodes_of(entry, es))
                /\ \E sizes \in IF es = <<>> THEN {CellSizes, TallFirst} ELSE {CellSizes} :
                      vertices = [n \in nodes_of(entry, es) |->
                                     [x |-> 0, y |-> 0, width |-> sizes[n].width,
                                      height |-> sizes[n].height]]
                /\ connectors = [i \in DOMAIN es |->
                                    [source |-> es[i][1], target |-> es[i][2], points |-> <<>>]]

NextLayout ==
    \/ NextRank
    \/ LayoutOrder \/ LayoutEqualize \/ LayoutCoordinates \/ LayoutRemoveOverlaps
    \/ LayoutCreate \/ LayoutRoute
    \/ RelayoutGrid

SpecLayout == InitLayout /\ [][NextLayout]_vars

\* The call runs with the default LayoutEngineConfig (any direction).
default_config == [k \in DOMAIN DefaultConfig |-> cfg[k]] = DefaultConfig

\* C7 (no overlap after layout): with the default configuration and any
\* direction, once layout_sugiyama has created its vertices (after rank-size
\* equalization, overlap removal and the grid snap) no two of them have
\* intersecting bounding boxes: find_overlapping_cells with margin 0 is empty.
C7_NoOverlapAfterLayout ==
    (entry = "layout_sugiyama" /\ pc \in {"placed", "returned"} /\ default_config) =>
        find_overlapping_cells(cell_ids, vertices, 0) = {}

\* Witness: a default-configuration layout has returned with two vertices in
\* one rank, one of them resized by the equalization, and a position that
\* the grid snap had to move.
C7_Witness ==
    /\ entry = "layout_sugiyama"
    /\ pc = "returned"
    /\ default_config
    /\ \E a \in DOMAIN vertices : \E b \in DOMAIN vertices :
          /\ a # b
          /\ ranks[a] = ranks[b]
          /\ local.nodes[a] # local.before[a]
    /\ \E n \in DOMAIN vertices : local.pos[n].x # 0 /\ local.coords[n].x2 # 2 * local.pos[n].x

\* The vertices _relayout_grid has given a position of the grid: the
\* keys of the dict it returns.
placed_by_grid ==
    {n \in DOMAIN vertices :
        \E i \in 0..(Len(cell_ids) - 1) :
            LET cols == Max2(1, isqrt(Len(cell_ids)))
            IN  /\ cell_ids[i + 1] = n
                /\ vertices[n].x = snap_to_grid(cfg.start_x + (i % cols)
                                       * (vertices[n].width + cfg.node_spacing), cfg.grid_size)
                /\ vertices[n].y = snap_to_grid(cfg.start_y + (i \div cols)
                                       * (vertices[n].height + cfg.rank_spacing), cfg.grid_size)}

\* C20 (grid for a diagram without connectors): after relayout_diagram on a
\* diagram whose vertices no connector joins, every vertex has been placed
\* and no two bounding boxes intersect, whatever the sizes.
C20_GridWithoutOverlap ==
    (entry = "relayout_diagram" /\ pc = "returned" /\ connectors = <<>> /\ default_config) =>
        /\ DOMAIN vertices = Range(cell_ids)
        /\ \A n \in DOMAIN vertices : n \in placed_by_grid
        /\ find_overlapping_cells(cell_ids, vertices, 0) = {}

\* The real nodes of rank r, and the dimension the direction equalizes.
real_in_rank(r) == {n \in DOMAIN vertices : ranks[n] = r}
equalized_dim == IF cfg.direction \in {"TB", "BT"} THEN "height" ELSE "width"

\* C9 (rank equalization): after layout_sugiyama and relayout_diagram have
\* placed the nodes, all real nodes sharing a rank have the same height (TB,
\* BT) or the same width (LR, RL), equal to the largest such dimension in the
\* rank before equalization, and no node is smaller than it was.
C9_RankEqualized ==
    (entry \in {"layout_sugiyama", "relayout_diagram"} /\ pc \in {"placed", "returned"}
        /\ edges # <<>>) =>
        /\ \A n \in DOMAIN vertices :
              vertices[n][equalized_dim] =
                  SetMax({local.before[m][equalized_dim] : m \in real_in_rank(ranks[n])})
        /\ \A n \in DOMAIN vertices :
              /\ vertices[n].width >= local.before[n].width
              /\ vertices[n].height >= local.before[n].height

\* Witness: a layout that has returned in which equalization made a node
\* taller (TB, BT) and one in which it made a node wider (LR, RL) exist; the
\* state named here is the first kind, reached from relayout_diagram.
C9_Witness ==
    /\ entry = "relayout_diagram"
    /\ pc = "returned"
    /\ edges # <<>>
    /\ cfg.direction = "TB"
    /\ \E n \in DOMAIN vertices : vertices[n].height > local.before[n].height

\* The coordinate along which the ranks are laid out: of a created vertex,
\* and of a node as _assign_coordinates placed it (doubled).
primary(n) == IF cfg.direction \in {"TB", "BT"} THEN vertices[n].y ELSE vertices[n].x
primary2(n) == IF cfg.direction \in {"TB", "BT"} THEN local.coords[n].y2 ELSE local.coords[n].x2
\* rank a comes before rank b in ordered_ranks.
rank_before(a, b) == IF cfg.direction \in {"TB", "LR"} THEN a < b ELSE a > b
\* The largest extent along the primary axis among the real nodes of rank r.
rank_max_extent(r) ==
    SetMax({IF cfg.direction \in {"TB", "BT"} THEN local.nodes[n].height
            ELSE local.nodes[n].width : n \in real_in_rank(r)})

\* C21 (primary-axis positions follow ranks): in the layout of
\* layout_sugiyama the vertices of one rank share their primary coordinate, a
\* smaller rank lies before a larger one (after it for BT and RL), and a rank
\* starts at the start of the rank before it plus that rank's largest extent
\* plus rank_spacing.
C21_PrimaryAxisFollowsRanks ==
    (entry = "layout_sugiyama" /\ pc \in {"placed", "returned"}) =>
        \A u \in DOMAIN vertices : \A v \in DOMAIN vertices :
            /\ ranks[u] = ranks[v] => primary(u) = primary(v)
            /\ ranks[u] < ranks[v] =>
                   IF cfg.direction \in {"TB", "LR"} THEN primary(u) < primary(v)
                   ELSE primary(u) > primary(v)
            /\ (rank_before(ranks[u], ranks[v]) /\ Abs(ranks[u] - ranks[v]) = 1) =>
                   primary2(v) = primary2(u) + 2 * (rank_max_extent(ranks[u]) + cfg.rank_spacing)

\* expanded_edges as step 3 of layout_sugiyama built it for this call.
expanded_edges ==
    expand_edges(edges, ranks, back_edges,
                 [virtuals |-> <<>>, expanded_edges |-> <<>>]).expanded_edges

\* C22 (virtual nodes make every edge span one rank): after step 3 of
\* layout_sugiyama the two ends of every expanded edge have ranks that differ
\* by exactly one, for every input edge, reversed and long edges included.
C22_ExpandedEdgesSpanOneRank ==
    (entry = "layout_sugiyama" /\ pc = "ordered") =>
        \A i \in DOMAIN expanded_edges :
            Abs(local.nodes[expanded_edges[i][1]].rank
                - local.nodes[expanded_edges[i][2]].rank) = 1

\* The coordinate across the ranks of a node as _assign_coordinates placed it
\* (doubled), and the extent of the node along that axis.
cross2(n) == IF cfg.direction \in {"TB", "BT"} THEN local.coords[n].x2 ELSE local.coords[n].y2
cross_extent(n) ==
    IF cfg.direction \in {"TB", "BT"} THEN local.nodes[n].width ELSE local.nodes[n].height

\* Four times the midpoint of the cross-axis extent of a rank, given its real
\* nodes in order.
rank_midpoint4(real_nodes) ==
    cross2(real_nodes[1]) + cross2(real_nodes[Len(real_nodes)])
        + 2 * cross_extent(real_nodes[Len(real_nodes)])

\* C26 (ranks are packed and centred): after coordinate assignment, in every
\* direction, the real nodes of a rank follow one another along the cross
\* axis with node_spacing between them, and the midpoint of the cross-axis
\* extent is the same for every rank (before snapping).
C26_RanksPackedAndCentred ==
    (entry \in {"layout_sugiyama", "relayout_diagram"} /\ pc = "assigned") =>
        LET real_nodes(r) == real_of(local.by_rank[r], local.nodes)
            ranked == {r \in DOMAIN local.by_rank : real_nodes(r) # <<>>}
        IN  /\ \A r \in ranked : \A k \in 1..(Len(real_nodes(r)) - 1) :
                   cross2(real_nodes(r)[k + 1])
                       = cross2(real_nodes(r)[k])
                         + 2 * (cross_extent(real_nodes(r)[k]) + cfg.node_spacing)
            /\ \A r \in ranked : \A q \in ranked :
                   rank_midpoint4(real_nodes(r)) = rank_midpoint4(real_nodes(q))

\* ------------------------------------ crossing minimization, sort by sort
\* Step 4 of layout_sugiyama with one action for every call of
\* _barycenter_sort.  local.step counts the calls made; one iteration makes
\* max_rank calls of the forward sweep (ranks 1..max_rank, exp_rev) and
\* max_rank calls of the backward sweep (ranks max_rank - 1..0, exp_adj).
sweep_forward(step, max_rank) == (step % (2 * max_rank)) < max_rank

sweep_rank(step, max_rank) ==
    IF sweep_forward(step, max_rank) THEN (step % (2 * max_rank)) + 1
    ELSE 2 * max_rank - 1 - (step % (2 * max_rank))

\* Step 3 and the start of step 4: by_rank, the adjacency of the expanded
\* graph and "Initialize order".
SweepBegin ==
    /\ entry = "layout_sugiyama"
    /\ pc = "ranked"
    /\ LET ex == expand_edges(edges, ranks, back_edges,
                              [virtuals |-> <<>>, expanded_edges |-> <<>>])
           virtual_ids == [k \in DOMAIN ex.virtuals |-> ex.virtuals[k].id]
           node_order == all_labels \o SelectSeq(virtual_ids, LAMBDA v : v \notin Range(all_labels))
           real_nodes == initial_nodes(entry, all_labels, vertices, ranks, cfg)
           nodes == [n \in Range(node_order) |->
                        IF n \in Range(virtual_ids)
                        THEN ex.virtuals[CHOOSE k \in DOMAIN ex.virtuals : ex.virtuals[k].id = n]
                        ELSE real_nodes[n]]
           by_rank == group_by_rank(node_order, nodes)
       IN  local' = [nodes |-> nodes, by_rank |-> by_rank,
                     order |-> initial_order(by_rank, Range(node_order)),
                     exp_rev |-> adjacency(ex.expanded_edges, Range(node_order), 2, 1),
                     exp_adj |-> adjacency(ex.expanded_edges, Range(node_order), 1, 2),
                     max_rank |-> SetMax(DOMAIN by_rank), step |-> 0]
    /\ pc' = "sweep"
    /\ UNCHANGED <<call_vars, graph_vars, cfg, diagram_vars>>

\* One call of _barycenter_sort.
SweepSort ==
    /\ entry = "layout_sugiyama"
    /\ pc = "sweep"
    /\ in_range(local.step, cfg.barycenter_iterations * 2 * local.max_rank)
    /\ LET st == barycenter_sort(sweep_rank(local.step, local.max_rank),
                                 [by_rank |-> local.by_rank, order |-> local.order],
                                 IF sweep_forward(local.step, local.max_rank)
                                 THEN local.exp_rev ELSE local.exp_adj)
       IN  local' = [local EXCEPT !.by_rank = st.by_rank, !.order = st.order, !.step = @ + 1]
    /\ UNCHANGED <<call_vars, pc, graph_vars, cfg, diagram_vars>>

InitSweep == InitLayout /\ entry = "layout_sugiyama"

NextSweep == NextRank \/ SweepBegin \/ SweepSort

SpecSweep == InitSweep /\ [][NextSweep]_vars

\* The rank the next call sorts, the neighbours the call looks at, and the
\* rank next to it on the side the sweep comes from.
sorted_rank == sweep_rank(local.step, local.max_rank)
sweep_neighbors(n) ==
    IF sweep_forward(local.step, local.max_rank) THEN local.exp_rev[n] ELSE local.exp_adj[n]
adjacent_rank ==
    IF sweep_forward(local.step, local.max_rank) THEN sorted_rank - 1 ELSE sorted_rank + 1

\* The barycenter of a node of the sorted rank as a fraction <<sum, len>>:
\* the mean order of its neighbours in the adjacent rank, its own order when
\* it has none.
adjacent_barycenter(n) ==
    LET near == SelectSeq(sweep_neighbors(n), LAMBDA m : local.nodes[m].rank = adjacent_rank)
    IN  IF near = <<>> THEN <<local.order[n], 1>>
        ELSE <<SeqSum([i \in DOMAIN near |-> local.order[near[i]]]), Len(near)>>

position_in(seq, n) == CHOOSE i \in DOMAIN seq : seq[i] = n

\* C29 (barycenter sweep step): after every call of _barycenter_sort on a
\* rank the order values of its nodes are 0..n-1, the rank is sorted by
\* non-decreasing barycenter with ties in their previous relative order, a
\* node with no neighbour in the adjacent rank counting with its own order;
\* and after the sweeps of the fan-out A->B, A->C, A->D the nodes B, C, D
\* share a rank and have strictly increasing order positions.
C29_SweepStepSortsRank ==
    [][(entry = "layout_sugiyama" /\ pc = "sweep" /\ pc' = "sweep") =>
          LET before == rank_list(local.by_rank, sorted_rank)
              after == local'.by_rank[sorted_rank]
          IN  /\ \A i \in DOMAIN after : local'.order[after[i]] = i - 1
              /\ Range(after) = Range(before) /\ Len(after) = Len(before)
              /\ \A i \in DOMAIN after : \A j \in DOMAIN after :
                     i < j =>
                        /\ ~key_less(adjacent_barycenter(after[j]), adjacent_barycenter(after[i]))
                        /\ key_less(adjacent_barycenter(after[i]), adjacent_barycenter(after[j]))
                           \/ position_in(before, after[i]) < position_in(before, after[j])
              /\ (edges = FanOut
                  /\ local'.step = cfg.barycenter_iterations * 2 * local.max_rank) =>
                     /\ local.nodes["B"].rank = local.nodes["C"].rank
                     /\ local.nodes["C"].rank = local.nodes["D"].rank
                     /\ local'.order["B"] < local'.order["C"]
                     /\ local'.order["C"] < local'.order["D"]]_vars

\* C11 (output construction): once layout_sugiyama has created its cells,
\* there is exactly one vertex per distinct label of the edge list and the
\* returned mapping has exactly those labels as keys; there is exactly one
\* connector per input edge, in input order, with that edge's source, target
\* and label; no virtual node has a vertex.
C11_OneCellPerLabelAndEdge ==
    (entry = "layout_sugiyama" /\ pc \in {"placed", "returned"}) =>
        /\ Range(cell_ids) = LabelsOf(edges)
        /\ Len(cell_ids) = Cardinality(LabelsOf(edges))
        /\ DOMAIN vertices = LabelsOf(edges)
        /\ Len(connectors) = Len(edges)
        /\ \A i \in DOMAIN connectors :
              /\ connectors[i].source = edges[i][1]
              /\ connectors[i].target = edges[i][2]
              /\ connectors[i].value = edge_label(i)
        /\ \A n \in DOMAIN local.nodes : local.nodes[n].is_virtual => n \notin DOMAIN vertices

\* ------------------------------------------- two runs on the same input
\* What a run of layout_sugiyama leaves: ranks, the order within each rank,
\* the vertices and the connectors with their waypoints.
run_result == [ranks |-> ranks, by_rank |-> local.by_rank, vertices |-> vertices,
               connectors |-> connectors]

\* A second call of layout_sugiyama with the same edge list, in the same
\* order, and the same configuration, on a fresh diagram.  The call may run in
\* another interpreter process: "for label in all_labels" iterates a set of
\* str, whose order follows the string hash seed of the process.
LayoutAgain ==
    /\ entry = "layout_sugiyama"
    /\ pc = "returned"
    /\ previous = <<>>
    /\ previous' = run_result
    /\ \E order \in Perms(nodes_of(entry, edges)) :
          /\ all_labels' = order
          /\ color' = [n \in Range(order) |-> WHITE]
          /\ effective_adj' = [n \in Range(order) |-> <<>>]
          /\ effective_rev' = [n \in Range(order) |-> <<>>]
          /\ ranks' = [n \in Range(order) |-> NoRank]
    /\ stack' = <<>>
    /\ start_i' = 1
    /\ back_edges' = {}
    /\ queue' = <<>>
    /\ cell_ids' = <<>>
    /\ vertices' = <<>>
    /\ connectors' = <<>>
    /\ local' = <<>>
    /\ pc' = "dfs"
    /\ UNCHANGED <<entry, edges, cfg, grid_size, written>>

InitTwice == InitLayout /\ entry = "layout_sugiyama"

NextTwice ==
    \/ NextRank
    \/ LayoutOrder \/ LayoutEqualize \/ LayoutCoordinates \/ LayoutRemoveOverlaps
    \/ LayoutCreate \/ LayoutRoute
    \/ LayoutAgain

SpecTwice == InitTwice /\ [][NextTwice]_vars

\* C12 (determinism): a second run of layout_sugiyama on the same edge list
\* in the same order with the same configuration returns the ranks, the
\* within-rank orders, the vertex coordinates and the connector waypoints of
\* the first run.
C12_SameInputSameLayout ==
    (entry = "layout_sugiyama" /\ pc = "returned" /\ previous # <<>>) =>
        run_result = previous

\* ------------------------------------------------------------------ ports
\* layout.py: distribute_ports_for_batch.  A port coordinate is a fraction
\* <<numerator, denominator>> of the side (0.5 is <<1, 2>>); centres are
\* doubled.
\* _determine_side: "abs(dx) > abs(dy) * 1.2" is "5 * |dx| > 6 * |dy|".
determine_side(src_bounds, tgt_bounds) ==
    LET dx2 == cx2(tgt_bounds) - cx2(src_bounds)
        dy2 == cy2(tgt_bounds) - cy2(src_bounds)
    IN  IF 5 * Abs(dx2) > 6 * Abs(dy2)
        THEN IF dx2 >= 0 THEN <<"right", "left">> ELSE <<"left", "right">>
        ELSE IF dy2 >= 0 THEN <<"bottom", "top">> ELSE <<"top", "bottom">>

\* _side_to_base_port
side_to_base_port(side) ==
    CASE side = "top" -> [x |-> <<1, 2>>, y |-> <<0, 1>>]
      [] side = "bottom" -> [x |-> <<1, 2>>, y |-> <<1, 1>>]
      [] side = "left" -> [x |-> <<0, 1>>, y |-> <<1, 2>>]
      [] side = "right" -> [x |-> <<1, 1>>, y |-> <<1, 2>>]

\* _distribute_ports_on_side: t = 0.15 + (1.0 - 2 * 0.15) * index / (count - 1).
distribute_ports_on_side(side, count, index) ==
    IF count <= 1 THEN side_to_base_port(side)
    ELSE LET t == <<15 * (count - 1) + 70 * index, 100 * (count - 1)>>
         IN  CASE side = "top" -> [x |-> t, y |-> <<0, 1>>]
               [] side = "bottom" -> [x |-> t, y |-> <<1, 1>>]
               [] side = "left" -> [x |-> <<0, 1>>, y |-> t]
               [] side = "right" -> [x |-> <<1, 1>>, y |-> t]

\* Step 1: the sides of every connection ("right", "left" when a box is
\* missing).
edge_sides(connections, bounds) ==
    [i \in DOMAIN connections |->
        IF connections[i][1] \in DOMAIN bounds /\ connections[i][2] \in DOMAIN bounds
        THEN determine_side(bounds[connections[i][1]], bounds[connections[i][2]])
        ELSE <<"right", "left">>]

\* _sort_key_exit (end = 2: the target) and _sort_key_entry (end = 1: the
\* source): the centre of the other end along the side, doubled, as a
\* fraction; 0.0 when it has no box.  The first is the same key read on the
\* other axis.
sort_key_other_axis(connections, bounds, idx, side, end) ==
    LET id == connections[idx][end]
    IN  IF id \notin DOMAIN bounds THEN <<0, 1>>
        ELSE IF side \in {"top", "bottom"} THEN <<cy2(bounds[id]), 1>>
        ELSE <<cx2(bounds[id]), 1>>

sort_key(connections, bounds, idx, side, end) ==
    LET id == connections[idx][end]
    IN  IF id \notin DOMAIN bounds THEN <<0, 1>>
        ELSE IF side \in {"top", "bottom"} THEN <<cx2(bounds[id]), 1>>
        ELSE <<cy2(bounds[id]), 1>>

\* Steps 2 and 3: the siblings of connection i at its source (end = 1, exit
\* side) or at its target (end = 2, entry side), in input order, then sorted
\* by the position of their other end (list.sort is stable; a group of one
\* is left alone, which is the same).
siblings(connections, sides, bounds, i, end) ==
    LET group == SelectSeq([j \in DOMAIN connections |-> j],
                          LAMBDA j : /\ connections[j][end] = connections[i][end]
                                     /\ sides[j][end] = sides[i][end])
        keys == [j \in Range(group) |->
                    sort_key(connections, bounds, j, sides[i][end], 3 - end)]
    IN  sort_by_key(group, keys)

\* list.index
index_of(seq, v) == (CHOOSE k \in DOMAIN seq : seq[k] = v) - 1

\* Step 4: the (exit, entry) ports of every connection.
distribute_ports_for_batch(connections, bounds) ==
    LET sides == edge_sides(connections, bounds)
    IN  [i \in DOMAIN connections |->
            LET exit_siblings == siblings(connections, sides, bounds, i, 1)
                entry_siblings == siblings(connections, sides, bounds, i, 2)
            IN  [exit |-> distribute_ports_on_side(sides[i][1], Len(exit_siblings),
                                                   index_of(exit_siblings, i)),
                 entry |-> distribute_ports_on_side(sides[i][2], Len(entry_siblings),
                                                    index_of(entry_siblings, i))]]

\* The call: local.connections are the pairs, the boxes are those of the
\* vertices.
DistributePorts ==
    /\ entry = "distribute_ports_for_batch"
    /\ pc = "ports"
    /\ local' = [connections |-> local.connections,
                 results |-> distribute_ports_for_batch(local.connections,
                                                        get_all_vertex_bounds(vertices))]
    /\ pc' = "returned"
    /\ UNCHANGED <<call_vars, graph_vars, cfg, diagram_vars>>

\* The batches of the port specification: S in the middle, T1, T2 and T3
\* each on one of the places round it (the first three are stacked on the
\* right of S, as the targets of scenario D); fan-out, fan-in, a batch with
\* a repeated pair and one with an id ("Z") that has no box.  The last place
\* has abs(dx) = abs(dy) * 1.2 exactly.
PortSource == CellBounds(300, 300, 100, 60)
PortPlaces == {<<600, 200>>, <<600, 300>>, <<600, 400>>, <<0, 300>>, <<150, 600>>,
               <<450, 600>>, <<300, 0>>, <<540, 500>>}
PortBatches == { << <<"S", "T1">>, <<"S", "T2">>, <<"S", "T3">> >>,
                 << <<"S", "T3">>, <<"S", "T1">>, <<"S", "T2">> >>,
                 << <<"T1", "S">>, <<"T2", "S">>, <<"T3", "S">> >>,
                 << <<"T2", "S">>, <<"S", "T1">>, <<"T3", "S">>, <<"T1", "S">> >>,
                 << <<"S", "T2">>, <<"S", "T1">>, <<"S", "T2">> >>,
                 << <<"S", "T1">>, <<"S", "Z">>, <<"S", "T2">>, <<"Z", "T3">> >>,
                 << >> }

InitPorts ==
    /\ entry = "distribute_ports_for_batch"
    /\ pc = "ports"
    /\ NoGraph
    /\ cfg = <<>>
    /\ cell_ids = <<"S", "T1", "T2", "T3">>
    /\ \E p \in [{"T1", "T2", "T3"} -> PortPlaces] :
          vertices = [id \in {"S", "T1", "T2", "T3"} |->
                         IF id = "S" THEN PortSource
                         ELSE CellBounds(p[id][1], p[id][2], 100, 60)]
    /\ connectors = <<>>
    /\ grid_size = 10
    /\ written = {}
    /\ previous = <<>>
    /\ \E batch \in PortBatches : local = [connections |-> batch]

NextPorts == DistributePorts

SpecPorts == InitPorts /\ [][NextPorts]_vars

\* The coordinate of a port along its side, and equality / order of
\* fractions.
along(port, side) == IF side \in {"top", "bottom"} THEN port.x ELSE port.y
frac_less(a, b) == a[1] * b[2] < b[1] * a[2]
on_side(port, side) ==
    CASE side = "top" -> port.y = <<0, 1>>
      [] side = "bottom" -> port.y = <<1, 1>>
      [] side = "left" -> port.x = <<0, 1>>
      [] side = "right" -> port.x = <<1, 1>>

\* Connections i and j are siblings at end e (1: same source and exit side,
\* 2: same target and entry side).
are_siblings(i, j, e) ==
    LET sides == edge_sides(local.connections, get_all_vertex_bounds(vertices))
    IN  /\ i # j
        /\ local.connections[i][e] = local.connections[j][e]
        /\ sides[i][e] = sides[j][e]

\* The centre of a box along a side, doubled: cx for the top and the bottom
\* side (left to right), cy for the left and the right side (top to bottom).
centre_along(b, side) == IF side \in {"top", "bottom"} THEN 2 * b.x + b.width
                         ELSE 2 * b.y + b.height

\* The port of result r at end e.
port_of(r, e) == IF e = 1 THEN r.exit ELSE r.entry

\* C14 (port distribution): distribute_ports_for_batch returns one (exit,
\* entry) pair per connection, the i-th on the sides of the i-th connection;
\* connections sharing a source and an exit side have pairwise different exit
\* ports, in the order of their targets' centres along the side (cy on left
\* and right sides, cx on top and bottom sides), and the same for the entry
\* ports of connections sharing a target and an entry side, by the sources'
\* centres.
C14_PortsDistinctAndOrdered ==
    (entry = "distribute_ports_for_batch" /\ pc = "returned") =>
        LET conns == local.connections
            bounds == get_all_vertex_bounds(vertices)
            sides == edge_sides(conns, bounds)
        IN  /\ DOMAIN local.results = DOMAIN conns
            /\ \A i \in DOMAIN conns : \A e \in {1, 2} :
                  on_side(port_of(local.results[i], e), sides[i][e])
            /\ \A i \in DOMAIN conns : \A j \in DOMAIN conns : \A e \in {1, 2} :
                  are_siblings(i, j, e) =>
                     LET ti == along(port_of(local.results[i], e), sides[i][e])
                         tj == along(port_of(local.results[j], e), sides[j][e])
                         oi == conns[i][3 - e]
                         oj == conns[j][3 - e]
                     IN  /\ frac_less(ti, tj) \/ frac_less(tj, ti)
                         /\ (/\ oi \in DOMAIN bounds
                             /\ oj \in DOMAIN bounds
                             /\ centre_along(bounds[oi], sides[i][e])
                                   < centre_along(bounds[oj], sides[i][e]))
                            => frac_less(ti, tj)

\* Witness: scenario D with the batch in another order than the places: S
\* has three connections leaving on its right side, given bottom target
\* first, and the call has returned.
C14_Witness ==
    /\ entry = "distribute_ports_for_batch"
    /\ pc = "returned"
    /\ local.connections = << <<"S", "T3">>, <<"S", "T1">>, <<"S", "T2">> >>
    /\ vertices["T1"].x = 600 /\ vertices["T2"].x = 600 /\ vertices["T3"].x = 600
    /\ vertices["T1"].y < vertices["T2"].y
    /\ vertices["T2"].y < vertices["T3"].y
    /\ local.results[1].exit.y = <<170, 200>>

\* ------------------------------------------------------- bounded work
\* resolve_overlaps, _remove_overlaps and the A* search, each called on its
\* own inputs.
InitBounded == InitOverlap \/ InitRemoveOverlaps \/ InitAstar

NextBounded == NextOverlap \/ NextRemoveOverlaps \/ NextAstar

SpecBounded == InitBounded /\ [][NextBounded]_vars

\* C13 (bounded work): resolve_overlaps never makes more than max_iterations
\* full pair scans and _remove_overlaps never more than
\* max_overlap_iterations passes, and every call takes finitely many steps:
\* no run of passes or of A* pops goes on for ever, from some point on
\* nothing changes any more.  (The two actions of each loop have
\* complementary guards, so a call stops only when it has returned: at the
\* cap whether or not overlap remains, with the goal reached or the open set
\* empty.)
C13_BoundedWork ==
    /\ [](entry = "resolve_overlaps" => local.iteration <= cfg.max_iterations)
    /\ [](entry = "_remove_overlaps" => local.passes <= cfg.max_overlap_iterations)
    /\ <>[][FALSE]_vars

\* Witness: resolve_overlaps has returned at its cap, every one of its
\* max_iterations scans having found an overlap, and overlap remains.
C13_Witness ==
    /\ entry = "resolve_overlaps"
    /\ pc = "returned"
    /\ local.iteration = cfg.max_iterations
    /\ cfg.max_iterations >= 2
    /\ ~local.clean
    /\ find_overlapping_cells(cell_ids, vertices, cfg.margin) # {}

\* The two overlaps of a pair as each resolver measures them: _compute_overlap
\* on the positions of _remove_overlaps (units of 1 / local.scale), overlap_x
\* and overlap_y of resolve_overlaps (doubled).
measured_overlap(a, b) ==
    IF entry = "_remove_overlaps"
    THEN compute_overlap(vertices[a], vertices[b], local.pos[a], local.pos[b],
                         cfg.overlap_padding, local.scale)
    ELSE [x |-> (vertices[a].width + vertices[b].width + 2 * cfg.margin)
                    - Abs(cx2(vertices[b]) - cx2(vertices[a])),
          y |-> (vertices[a].height + vertices[b].height + 2 * cfg.margin)
                    - Abs(cy2(vertices[b]) - cy2(vertices[a]))]

padded_boxes_intersect(a, b) ==
    /\ measured_overlap(a, b).x > 0 /\ measured_overlap(a, b).y > 0
    /\ entry = "resolve_overlaps" => intersects(vertices[a], vertices[b], cfg.margin)

\* The axis the pair is to be pushed along: the smaller overlap, x on a tie.
axis_of_smaller_overlap(a, b) ==
    IF measured_overlap(a, b).x <= measured_overlap(a, b).y THEN "x" ELSE "y"

other_axis(axis) == IF axis = "x" THEN "y" ELSE "x"

\* A pass of _remove_overlaps has moved a and b apart along axis by half the
\* overlap plus one each (a towards the smaller coordinates when it starts
\* before b), and has left their other coordinate alone.
removed_along(a, b, axis) ==
    LET o == measured_overlap(a, b)[axis]
        s == local.scale
        t == local'.scale
        sa == IF local.pos[a][axis] < local.pos[b][axis] THEN -1 ELSE 1
    IN  /\ 2 * (local'.pos[a][axis] * s - local.pos[a][axis] * t) = sa * (o + 2 * s) * t
        /\ 2 * (local'.pos[b][axis] * s - local.pos[b][axis] * t) = (-sa) * (o + 2 * s) * t
        /\ local'.pos[a][other_axis(axis)] * s = local.pos[a][other_axis(axis)] * t
        /\ local'.pos[b][other_axis(axis)] * s = local.pos[b][other_axis(axis)] * t

\* A pass of resolve_overlaps has written for a and b the coordinate along
\* axis moved by half the overlap plus one (a towards the smaller coordinates
\* when its center is not after the center of b), snapped to the grid, and has
\* left their other coordinate alone.
resolved_along(a, b, axis) ==
    LET o2 == measured_overlap(a, b)[axis]
        ca == IF axis = "x" THEN cx2(vertices[a]) ELSE cy2(vertices[a])
        cb == IF axis = "x" THEN cx2(vertices[b]) ELSE cy2(vertices[b])
        sa == IF cb - ca >= 0 THEN -1 ELSE 1
    IN  /\ vertices'[a][axis] = snap_frac(4 * vertices[a][axis] + sa * (o2 + 4), 4, grid_size)
        /\ vertices'[b][axis] = snap_frac(4 * vertices[b][axis] - sa * (o2 + 4), 4, grid_size)
        /\ vertices'[a][other_axis(axis)] = vertices[a][other_axis(axis)]
        /\ vertices'[b][other_axis(axis)] = vertices[b][other_axis(axis)]

\* The pass that starts here pushes the pair ids[i], ids[j] and no other: it
\* is the only pair whose padded boxes intersect and the third node stays.
only_pair_pushed(i, j) ==
    /\ i < j
    /\ padded_boxes_intersect(cell_ids[i], cell_ids[j])
    /\ \A k \in DOMAIN cell_ids : \A l \in DOMAIN cell_ids :
           (k < l /\ <<k, l>> # <<i, j>>) => ~padded_boxes_intersect(cell_ids[k], cell_ids[l])
    /\ \A k \in DOMAIN cell_ids \ {i, j} :
           /\ vertices'[cell_ids[k]] = vertices[cell_ids[k]]
           /\ entry = "_remove_overlaps" =>
                  /\ local'.pos[cell_ids[k]].x * local.scale = local.pos[cell_ids[k]].x * local'.scale
                  /\ local'.pos[cell_ids[k]].y * local.scale = local.pos[cell_ids[k]].y * local'.scale

\* C23 (push along the smaller overlap, x on a tie): a pass of
\* _remove_overlaps or of resolve_overlaps that pushes one intersecting pair
\* moves its two nodes apart along the axis with the smaller overlap, along x
\* when the two overlaps are equal, each by half the overlap plus one.
C23_PushAlongSmallerOverlap ==
    [][\A i \in DOMAIN cell_ids : \A j \in DOMAIN cell_ids :
          /\ (entry = "_remove_overlaps" /\ pc = "push" /\ pc' = "push"
               /\ only_pair_pushed(i, j)) =>
                 removed_along(cell_ids[i], cell_ids[j],
                               axis_of_smaller_overlap(cell_ids[i], cell_ids[j]))
          /\ (entry = "resolve_overlaps" /\ pc = "scan" /\ local'.iteration = local.iteration + 1
               /\ only_pair_pushed(i, j)) =>
                 resolved_along(cell_ids[i], cell_ids[j],
                                axis_of_smaller_overlap(cell_ids[i], cell_ids[j]))]_vars

\* ------------------------------ alignment, compaction, page placement
\* The functions of layout_engine.py that move or resize the vertices of an
\* existing diagram in place.  Every cell of the model's diagrams is a
\* top-level vertex (parent "1") with a geometry.

\* sorted(ids, key=...): stable, ascending; key2 gives the (doubled) key.
sorted_by(ids, key2) == sort_by_key(ids, [n \in Range(ids) |-> <<key2[n], 1>>])

\* _group_by_proximity, and the same loop as _group_into_rows,
\* align_rank_baselines and align_column_centers write it out: the sorted ids
\* are cut wherever two consecutive keys differ by more than threshold.
\* key2 holds the keys doubled.
RECURSIVE group_by_proximity(_, _, _)
group_by_proximity(sorted_ids, key2, threshold) ==
    IF sorted_ids = <<>> THEN <<>>
    ELSE LET n == Len(sorted_ids)
             groups == group_by_proximity(SubSeq(sorted_ids, 1, n - 1), key2, threshold)
         IN  IF groups = <<>> THEN << <<sorted_ids[n]>> >>
             ELSE IF Abs(key2[sorted_ids[n]] - key2[sorted_ids[n - 1]]) <= 2 * threshold
             THEN [groups EXCEPT ![Len(groups)] = Append(@, sorted_ids[n])]
             ELSE Append(groups, <<sorted_ids[n]>>)

\* The group that holds n.
group_of(groups, n) == groups[CHOOSE k \in DOMAIN groups : n \in Range(groups[k])]

\* align_rank_baselines (axis "y", dim "height") and align_column_centers
\* (axis "x", dim "width"): every cell of a row of two or more gets
\* snap_to_grid(avg_c - size / 2) when that differs from its coordinate by
\* more than 1.  avg_c - size / 2 = (sum of the doubled centres - n * size)
\* / (2 * n).
align_centers(ids, vs, axis, dim, threshold, grid) ==
    LET bounds == get_all_vertex_bounds(vs)
        c2 == [n \in Range(ids) |-> 2 * bounds[n][axis] + bounds[n][dim]]
        rows == group_by_proximity(sorted_by(ids, c2), c2, threshold)
        target(n) ==
            LET row == group_of(rows, n)
            IN  snap_frac(SeqSum([i \in DOMAIN row |-> c2[row[i]]]) - Len(row) * vs[n][dim],
                          2 * Len(row), grid)
        adjusted == {n \in Range(ids) :
                        /\ Len(ids) >= 2
                        /\ Len(group_of(rows, n)) >= 2
                        /\ Abs(vs[n][axis] - target(n)) > 1}
    IN  [vs |-> [n \in DOMAIN vs |->
                    IF n \in adjusted THEN [vs[n] EXCEPT ![axis] = target(n)] ELSE vs[n]],
         count |-> Cardinality(adjusted),
         wrote |-> {target(n) : n \in adjusted}]

align_rank_baselines(ids, vs, threshold, grid) ==
    align_centers(ids, vs, "y", "height", threshold, grid)

align_column_centers(ids, vs, threshold, grid) ==
    align_centers(ids, vs, "x", "width", threshold, grid)

\* equalize_connected_sizes: the cells of a row (TB / BT) get the largest
\* height of the row, the cells of a column (LR / RL) its largest width.
equalize_connected_sizes(ids, vs, direction, threshold) ==
    LET rows == direction \in {"TB", "BT"}
        axis == IF rows THEN "y" ELSE "x"
        dim == IF rows THEN "height" ELSE "width"
        bounds == get_all_vertex_bounds(vs)
        c2 == [n \in Range(ids) |-> 2 * bounds[n][axis] + bounds[n][dim]]
        groups == group_by_proximity(sorted_by(ids, c2), c2, threshold)
        max_of(n) == LET g == group_of(groups, n)
                     IN  SeqMax([i \in DOMAIN g |-> vs[g[i]][dim]])
        adjusted == {n \in Range(ids) :
                        /\ Len(ids) >= 2
                        /\ Len(group_of(groups, n)) >= 2
                        /\ vs[n][dim] < max_of(n)}
    IN  [vs |-> [n \in DOMAIN vs |->
                    IF n \in adjusted THEN [vs[n] EXCEPT ![dim] = max_of(n)] ELSE vs[n]],
         count |-> Cardinality(adjusted),
         wrote |-> {}]

\* Diagram.page_width and Diagram.page_height of a new Diagram (page = True).
PageWidth == 827
PageHeight == 1169

\* center_diagram_on_page.  target_x, target_y and the shifts are halves in
\* general and are kept doubled.
center_diagram_on_page(ids, vs, margin, grid) ==
    IF ids = <<>> THEN [vs |-> vs, count |-> 0, wrote |-> {}]
    ELSE
    LET bounds == get_all_vertex_bounds(vs)
        min_x == SetMin({bounds[n].x : n \in Range(ids)})
        min_y == SetMin({bounds[n].y : n \in Range(ids)})
        max_x == SetMax({right(bounds[n]) : n \in Range(ids)})
        max_y == SetMax({bottom(bounds[n]) : n \in Range(ids)})
        shift_x2 == Max2(2 * margin, PageWidth - (max_x - min_x)) - 2 * min_x
        shift_y2 == Max2(2 * margin, PageHeight - (max_y - min_y)) - 2 * min_y
        moved == [n \in DOMAIN vs |->
                     [vs[n] EXCEPT !.x = snap_frac(2 * vs[n].x + shift_x2, 2, grid),
                                   !.y = snap_frac(2 * vs[n].y + shift_y2, 2, grid)]]
    IN  IF Abs(shift_x2) < 10 /\ Abs(shift_y2) < 10
        THEN [vs |-> vs, count |-> 0, wrote |-> {}]
        ELSE [vs |-> moved, count |-> Len(ids),
              wrote |-> {moved[n].x : n \in Range(ids)} \cup {moved[n].y : n \in Range(ids)}]

\* ensure_page_margins.
ensure_page_margins(ids, vs, margin, grid) ==
    IF ids = <<>> THEN [vs |-> vs, count |-> 0, wrote |-> {}]
    ELSE
    LET bounds == get_all_vertex_bounds(vs)
        shift_x == Max2(0, margin - SetMin({bounds[n].x : n \in Range(ids)}))
        shift_y == Max2(0, margin - SetMin({bounds[n].y : n \in Range(ids)}))
        moved == [n \in DOMAIN vs |->
                     [vs[n] EXCEPT !.x = snap_to_grid(vs[n].x + shift_x, grid),
                                   !.y = snap_to_grid(vs[n].y + shift_y, grid)]]
    IN  IF shift_x < 1 /\ shift_y < 1
        THEN [vs |-> vs, count |-> 0, wrote |-> {}]
        ELSE [vs |-> moved, count |-> Len(ids),
              wrote |-> {moved[n].x : n \in Range(ids)} \cup {moved[n].y : n \in Range(ids)}]

\* compact_diagram: the vertical pass over the rows of _group_into_rows
\* (threshold 20), the horizontal pass inside every row on the refreshed
\* bounds, then align_rank_baselines and align_column_centers (threshold 20).
\* Every pass takes what the passes before it have done: done = [vs, count,
\* wrote].
compact_diagram(ids, vs, margin, grid) ==
    IF Len(ids) < 2 THEN [vs |-> vs, count |-> 0, wrote |-> {}]
    ELSE
    LET bounds == get_all_vertex_bounds(vs)
        y2 == [n \in Range(ids) |-> 2 * bounds[n].y]
        row_index(rows, n) == CHOOSE k \in DOMAIN rows : n \in Range(rows[k])
        vertical(rows) ==
            LET row_top(k) == SetMin({bounds[n].y : n \in Range(rows[k])})
                row_height(k) ==
                    SetMax({bottom(bounds[n]) : n \in Range(rows[k])}) - row_top(k)
                current_y(k) == bounds[rows[1][1]].y
                                + SeqSum([j \in 1..(k - 1) |-> row_height(j) + margin])
                shift(n) == current_y(row_index(rows, n)) - row_top(row_index(rows, n))
                moved == [n \in Range(ids) |->
                             IF Abs(shift(n)) > 5
                             THEN snap_to_grid(vs[n].y + shift(n), grid)
                             ELSE vs[n].y]
                lifted == {n \in Range(ids) : Abs(shift(n)) > 5}
            IN  [vs |-> [n \in DOMAIN vs |-> [vs[n] EXCEPT !.y = moved[n]]],
                 count |-> Cardinality(lifted),
                 wrote |-> {moved[n] : n \in lifted}]
        horizontal(rows, done) ==
            LET fresh == get_all_vertex_bounds(done.vs)
                x2 == [n \in Range(ids) |-> 2 * fresh[n].x]
                current_x(n) ==
                    LET row == sorted_by(rows[row_index(rows, n)], x2)
                        i == CHOOSE k \in DOMAIN row : row[k] = n
                    IN  IF i = 1 THEN fresh[n].x
                        ELSE fresh[row[i - 1]].x + fresh[row[i - 1]].width + margin
                slid == {n \in Range(ids) :
                            /\ Len(rows[row_index(rows, n)]) >= 2
                            /\ Abs(current_x(n) - fresh[n].x) > 5}
                moved == [n \in slid |-> snap_to_grid(current_x(n), grid)]
            IN  [vs |-> [n \in DOMAIN vs |->
                            IF n \in slid THEN [done.vs[n] EXCEPT !.x = moved[n]]
                            ELSE done.vs[n]],
                 count |-> done.count + Cardinality(slid),
                 wrote |-> done.wrote \cup {moved[n] : n \in slid}]
        and_then(done, aligned) ==
            [vs |-> aligned.vs, count |-> done.count + aligned.count,
             wrote |-> done.wrote \cup aligned.wrote]
        baselines(done) == and_then(done, align_rank_baselines(ids, done.vs, 20, grid))
        centers(done) == and_then(done, align_column_centers(ids, done.vs, 20, grid))
        passes(rows) == centers(baselines(horizontal(rows, vertical(rows))))
    IN  passes(group_by_proximity(sorted_by(ids, y2), y2, 20))

\* What a call of one of these functions does to the diagram: the function
\* named by entry on the parameters in cfg.
adjusted_diagram ==
    CASE entry = "compact_diagram" ->
             compact_diagram(cell_ids, vertices, cfg.margin, grid_size)
      [] entry = "center_diagram_on_page" ->
             center_diagram_on_page(cell_ids, vertices, cfg.margin, grid_size)
      [] entry = "ensure_page_margins" ->
             ensure_page_margins(cell_ids, vertices, cfg.margin, grid_size)
      [] entry = "align_rank_baselines" ->
             align_rank_baselines(cell_ids, vertices, cfg.threshold, grid_size)
      [] entry = "align_column_centers" ->
             align_column_centers(cell_ids, vertices, cfg.threshold, grid_size)
      [] entry = "equalize_connected_sizes" ->
             equalize_connected_sizes(cell_ids, vertices, cfg.direction, cfg.threshold)

\* The call of entry, from its first line to its return.
AdjustCall(e) ==
    /\ entry = e
    /\ pc = "call"
    /\ vertices' = adjusted_diagram.vs
    /\ written' = written \cup adjusted_diagram.wrote
    /\ local' = [result |-> adjusted_diagram.count]
    /\ pc' = "returned"
    /\ UNCHANGED <<call_vars, graph_vars, cfg, cell_ids, connectors, grid_size>>

CompactDiagram == AdjustCall("compact_diagram")
CenterDiagramOnPage == AdjustCall("center_diagram_on_page")
EnsurePageMargins == AdjustCall("ensure_page_margins")
AlignRankBaselines == AdjustCall("align_rank_baselines")
AlignColumnCenters == AdjustCall("align_column_centers")
EqualizeConnectedSizes == AdjustCall("equalize_connected_sizes")

\* The diagrams: the three vertices of the overlap specification, on
\* positions that make one or several rows and columns, and the parameters
\* with which server.py calls the functions (compact_diagram also with the
\* margin 0).
AdjXs == {0, 20, 45, 200}
AdjYs == {0, 15, 100}
AdjustCalls ==
    [entry : {"compact_diagram"}, cfg : [margin : {0, 40}]]
    \cup [entry : {"center_diagram_on_page"}, cfg : [margin : {50}]]
    \cup [entry : {"ensure_page_margins"}, cfg : [margin : {40}]]
    \cup [entry : {"align_rank_baselines", "align_column_centers"}, cfg : [threshold : {20}]]
    \cup [entry : {"equalize_connected_sizes"},
          cfg : [direction : {"TB", "LR"}, threshold : {20}]]

InitAdjust ==
    /\ \E call \in AdjustCalls : entry = call.entry /\ cfg = call.cfg
    /\ pc = "call"
    /\ NoGraph
    /\ cell_ids = <<"A", "B", "C">>
    /\ \E xs \in [BaseLabels -> AdjXs] : \E ys \in [BaseLabels -> AdjYs] :
          vertices = [id \in BaseLabels |->
                         [x |-> xs[id], y |-> ys[id],
                          width |-> OvSize[id].width, height |-> OvSize[id].height]]
    /\ connectors = << [source |-> "A", target |-> "B", points |-> <<[x |-> 12, y |-> 40]>>] >>
    /\ grid_size = 10
    /\ written = {}
    /\ previous = <<>>
    /\ local = <<>>

NextAdjust ==
    \/ CompactDiagram \/ CenterDiagramOnPage \/ EnsurePageMargins
    \/ AlignRankBaselines \/ AlignColumnCenters \/ EqualizeConnectedSizes

SpecAdjust == InitAdjust /\ [][NextAdjust]_vars

\* ------------------------------------ layout.py: the simple arrangements
\* layout_horizontal, layout_vertical, layout_grid and layout_tree create
\* cells on a diagram, connect_chain connects the cells of a row, column or
\* grid.  They snap with the grid_size of their LayoutConfig, not with
\* diagram.grid_size.  As everywhere in the model a cell is named by its
\* label; the labels of one call are distinct.

\* LayoutConfig with its default values.
DefaultLayoutConfig ==
    [start_x |-> 50, start_y |-> 50, h_spacing |-> 60, v_spacing |-> 60,
     default_width |-> 120, default_height |-> 60, grid_size |-> 10]

\* "diagram.add_vertex(label, x, y, cfg.default_width, cfg.default_height,
\* style)" for every label, in the order of labels; place[label] = [x, y].
AddVertices(labels, place) ==
    /\ cell_ids' = cell_ids \o labels
    /\ vertices' = [n \in DOMAIN vertices \cup Range(labels) |->
                       IF n \in Range(labels)
                       THEN [x |-> place[n].x, y |-> place[n].y,
                             width |-> cfg.default_width, height |-> cfg.default_height]
                       ELSE vertices[n]]
    /\ written' = written \cup {place[n].x : n \in Range(labels)}
                          \cup {place[n].y : n \in Range(labels)}

\* An Optional[float] argument is <<>> for None and <<value>> otherwise.
or_default(optional, default) == IF optional # <<>> THEN optional[1] ELSE default

LayoutHorizontal ==
    /\ entry = "layout_horizontal"
    /\ pc = "call"
    /\ LET labels == cfg.labels
           row_y == snap_to_grid(or_default(cfg.y, cfg.start_y), cfg.grid_size)
       IN  AddVertices(labels,
               [n \in Range(labels) |->
                   [x |-> snap_to_grid(cfg.start_x + index_of(labels, n)
                                          * (cfg.default_width + cfg.h_spacing), cfg.grid_size),
                    y |-> row_y]])
    /\ local' = [ids |-> cfg.labels]
    /\ pc' = "returned"
    /\ UNCHANGED <<call_vars, graph_vars, cfg, connectors, grid_size>>

LayoutVertical ==
    /\ entry = "layout_vertical"
    /\ pc = "call"
    /\ LET labels == cfg.labels
           col_x == snap_to_grid(or_default(cfg.x, cfg.start_x), cfg.grid_size)
       IN  AddVertices(labels,
               [n \in Range(labels) |->
                   [x |-> col_x,
                    y |-> snap_to_grid(cfg.start_y + index_of(labels, n)
                                          * (cfg.default_height + cfg.v_spacing), cfg.grid_size)]])
    /\ local' = [ids |-> cfg.labels]
    /\ pc' = "returned"
    /\ UNCHANGED <<call_vars, graph_vars, cfg, connectors, grid_size>>

LayoutGrid ==
    /\ entry = "layout_grid"
    /\ pc = "call"
    /\ LET labels == cfg.labels
           col(n) == index_of(labels, n) % cfg.columns
           row(n) == index_of(labels, n) \div cfg.columns
       IN  AddVertices(labels,
               [n \in Range(labels) |->
                   [x |-> snap_to_grid(cfg.start_x + col(n)
                                          * (cfg.default_width + cfg.h_spacing), cfg.grid_size),
                    y |-> snap_to_grid(cfg.start_y + row(n)
                                          * (cfg.default_height + cfg.v_spacing), cfg.grid_size)]])
    /\ local' = [ids |-> cfg.labels]
    /\ pc' = "returned"
    /\ UNCHANGED <<call_vars, graph_vars, cfg, connectors, grid_size>>

\* connect_chain on the ids a row, column or grid has returned: one edge
\* between every two consecutive ids, with the i-th label when there is one.
ConnectChain ==
    /\ entry \in {"layout_horizontal", "layout_vertical", "layout_grid"}
    /\ pc = "returned"
    /\ entry' = "connect_chain"
    /\ \E labels \in {<<>>, <<"first">>} :
          LET ids == local.ids
              made == [i \in 1..(Len(ids) - 1) |->
                          [source |-> ids[i], target |-> ids[i + 1],
                           value |-> IF i <= Len(labels) THEN labels[i] ELSE "",
                           points |-> <<>>]]
          IN  /\ connectors' = connectors \o made
              /\ local' = [ids |-> ids, labels |-> labels, edge_ids |-> Len(made)]
    /\ UNCHANGED <<previous, pc, graph_vars, cfg, cell_ids, vertices, grid_size, written>>

\* The adjacency dict of layout_tree is the sequence of its items
\* <<parent, children>>.  adjacency.get(node, []):
children_of(items, node) ==
    IF \E i \in DOMAIN items : items[i][1] = node
    THEN items[CHOOSE i \in DOMAIN items : items[i][1] = node][2]
    ELSE <<>>

\* "for parent_lbl, children in adjacency.items(): for child in children":
\* the pairs <<parent, child>> in the order of that loop.
RECURSIVE tree_pairs(_)
tree_pairs(items) ==
    IF items = <<>> THEN <<>>
    ELSE [i \in DOMAIN Head(items)[2] |-> <<Head(items)[1], Head(items)[2][i]>>]
         \o tree_pairs(Tail(items))

\* "BFS to assign levels": lv = [order, level], order the labels as they are
\* discovered and level[label] the level of each.
RECURSIVE tree_bfs(_, _, _)
tree_bfs(items, todo, lv) ==
    IF todo = <<>> THEN lv
    ELSE LET node == Head(todo)
             children == children_of(items, node)
             first == {i \in DOMAIN children :
                          /\ children[i] \notin Range(lv.order)
                          /\ \A j \in 1..(i - 1) : children[j] # children[i]}
             new == [k \in 1..Cardinality(first) |-> children[sorted(first)[k]]]
         IN  tree_bfs(items, Tail(todo) \o new,
                      [order |-> lv.order \o new,
                       level |-> [n \in Range(lv.order \o new) |->
                                     IF n \in Range(lv.order) THEN lv.level[n]
                                     ELSE lv.level[node] + 1]])

\* layout_tree up to "Assign positions": the levels after the forward sweep
\* (levels 1..max_lvl by the parents that have a position, those of the
\* level above) and the backward sweep (levels max_lvl - 1..0 by the
\* children).
tree_levels(items, root_label) ==
    LET swept(lv) ==
            LET found == Range(lv.order)
                max_lvl == SetMax({lv.level[n] : n \in found})
                by_level == [l \in 0..max_lvl |->
                                SelectSeq(lv.order, LAMBDA n : lv.level[n] = l)]
                reverse_adj == adjacency(tree_pairs(items), found, 2, 1)
                parents == [n \in found |->
                               SelectSeq(reverse_adj[n],
                                         LAMBDA q : q \in found /\ lv.level[q] < lv.level[n])]
                children == [n \in found |-> children_of(items, n)]
                forward(start) == sweep([i \in 1..max_lvl |-> i], start, parents)
                backward(st) == sweep([i \in 1..max_lvl |-> max_lvl - i], st, children)
                result(st) == [by_level |-> st.by_rank, level |-> lv.level, max_lvl |-> max_lvl]
            IN  result(backward(forward([by_rank |-> by_level,
                                         order |-> initial_order(by_level, found)])))
    IN  swept(tree_bfs(items, <<root_label>>,
                       [order |-> <<root_label>>, level |-> [n \in {root_label} |-> 0]]))

\* layout_tree: "Assign positions with snap-to-grid" and "Add edges".  The
\* centring offset is half of an integer: the coordinate across the levels
\* is kept doubled until it is snapped.
LayoutTree ==
    /\ entry = "layout_tree"
    /\ pc = "call"
    /\ LET total(count) == count * cfg.default_width + (count - 1) * cfg.h_spacing
           place(t, n) ==
               LET lvl == t.level[n]
                   i == index_of(t.by_level[lvl], n)
                   max_width_count ==
                       SeqMax([l \in 1..(t.max_lvl + 1) |-> Len(t.by_level[l - 1])])
                   offset2 == total(max_width_count) - total(Len(t.by_level[lvl]))
                   depth == IF cfg.direction \in {"BT", "RL"} THEN t.max_lvl - lvl ELSE lvl
               IN  IF cfg.direction \in {"TB", "BT"}
                   THEN [x |-> snap_frac(2 * cfg.start_x + offset2
                                            + 2 * i * (cfg.default_width + cfg.h_spacing),
                                         2, cfg.grid_size),
                         y |-> snap_to_grid(cfg.start_y
                                               + depth * (cfg.default_height + cfg.v_spacing),
                                            cfg.grid_size)]
                   ELSE [x |-> snap_to_grid(cfg.start_x
                                               + depth * (cfg.default_width + cfg.h_spacing),
                                            cfg.grid_size),
                         y |-> snap_frac(2 * cfg.start_y + offset2
                                            + 2 * i * (cfg.default_height + cfg.v_spacing),
                                         2, cfg.grid_size)]
           before(t, n) == SeqSum([l \in 1..t.level[n] |-> Len(t.by_level[l - 1])])
                           + index_of(t.by_level[t.level[n]], n)
           created(t) == [k \in 1..Cardinality(DOMAIN t.level) |->
                             CHOOSE n \in DOMAIN t.level : before(t, n) = k - 1]
           add_edges(pairs) ==
               connectors' = connectors \o
                   [i \in DOMAIN pairs |->
                       [source |-> pairs[i][1], target |-> pairs[i][2], value |-> "",
                        points |-> <<>>]]
           add_cells(t, cells) ==
               /\ AddVertices(cells, [n \in Range(cells) |-> place(t, n)])
               /\ add_edges(SelectSeq(tree_pairs(cfg.adjacency),
                                      LAMBDA e : e[1] \in Range(cells) /\ e[2] \in Range(cells)))
               /\ local' = [label_to_id |-> Range(cells), by_level |-> t.by_level]
           build(t) == add_cells(t, created(t))
       IN  build(tree_levels(cfg.adjacency, cfg.root_label))
    /\ pc' = "returned"
    /\ UNCHANGED <<call_vars, graph_vars, cfg, grid_size>>

\* The calls: rows, columns and grids of one to four labels, and four trees
\* (a diamond-like graph whose third level is reordered by the forward
\* sweep, a chain, a tree with a part the root does not reach, a cycle).
\* OffGridLayout holds sizes and spacings as the tools of server.py pass
\* them on, CoarseLayout a grid size of its own.
OffGridLayout ==
    [start_x |-> 55, start_y |-> 45, h_spacing |-> 65, v_spacing |-> 35,
     default_width |-> 125, default_height |-> 65, grid_size |-> 10]
CoarseLayout == [DefaultLayoutConfig EXCEPT !.grid_size = 20]
ArrangeConfigs == {DefaultLayoutConfig, OffGridLayout, CoarseLayout}
ArrangeLabels == {SubSeq(<<"A", "B", "C", "D">>, 1, k) : k \in 1..4}
TreeDag == << <<"A", <<"B", "C">>>>, <<"B", <<"D", "E">>>>, <<"C", <<"D">>>> >>
TreeChain == << <<"A", <<"B">>>>, <<"B", <<"C">>>> >>
TreeUnreached == << <<"A", <<"B">>>>, <<"C", <<"D">>>> >>
TreeCycle == << <<"A", <<"B", "C">>>>, <<"B", <<"A">>>> >>
ArrangeCalls ==
    [entry : {"layout_horizontal"}, labels : ArrangeLabels, y : {<<>>, <<123>>}]
    \cup [entry : {"layout_vertical"}, labels : ArrangeLabels, x : {<<>>, <<123>>}]
    \cup [entry : {"layout_grid"}, labels : ArrangeLabels, columns : 1..3]
    \cup [entry : {"layout_tree"}, adjacency : {TreeDag, TreeChain, TreeUnreached, TreeCycle},
          root_label : {"A", "B"}, direction : Directions]

InitArrange ==
    /\ \E call \in ArrangeCalls : \E c \in ArrangeConfigs :
          /\ entry = call.entry
          /\ cfg = c @@ [k \in DOMAIN call \ {"entry"} |-> call[k]]
    /\ pc = "call"
    /\ NoGraph
    /\ cell_ids = <<>>
    /\ vertices = <<>>
    /\ connectors = <<>>
    /\ grid_size \in DiagramGrids
    /\ written = {}
    /\ previous = <<>>
    /\ local = <<>>

NextArrange == LayoutHorizontal \/ LayoutVertical \/ LayoutGrid \/ LayoutTree \/ ConnectChain

SpecArrange == InitArrange /\ [][NextArrange]_vars

\* ------------------------------------------------ the engine specification
\* Every entry point that writes coordinates, each on its own diagrams: the
\* layouts, the overlap resolver, the router and the optimizer, the functions
\* that align, compact and place an existing diagram, and the simple
\* arrangements of layout.py.
InitEngine == InitLayout \/ InitOverlap \/ InitRoute \/ InitOpt \/ InitAdjust \/ InitArrange

NextEngine == NextLayout \/ NextOverlap \/ NextRoute \/ NextOpt \/ NextAdjust \/ NextArrange

SpecEngine == InitEngine /\ [][NextEngine]_vars

\* C8 (grid snapping): every x / y coordinate written so far (vertex
\* positions by layout_sugiyama and relayout_diagram, positions moved by
\* resolve_overlaps, waypoints by route_edges_around_obstacles and
\* optimize_edge_paths; also the positions written by the alignment,
\* compaction and page placement functions and by the simple arrangements) is
\* an exact integer multiple of the grid size of the diagram.
C8_WrittenOnGrid == \A v \in written : v % grid_size = 0

=============================================================================
